---- MODULE Spec2Model ----
(***************************************************************************)
(* Model of the route optimisation of urban-dna-api:                       *)
(*   src/src/core/models/point.py          MaintenancePoint, Priority      *)
(*   src/src/core/algorithms/distance.py   haversine_distance              *)
(*   src/src/core/algorithms/optimizer.py  TagBasedOptimizer               *)
(*   src/src/core/algorithms/prioritizer.py IntelligentPrioritizer         *)
(*   src/src/web/routes.py                 POST /optimize                  *)
(*   src/src/infra/database.py             get_point, get_points           *)
(*                                                                         *)
(* Geometry.  Every point of the model lies on one meridian (longitude 0). *)
(* On a meridian the haversine formula gives R * |lat1 - lat2| (radians),  *)
(* so with latitudes held as integers in a fixed angular unit the distance *)
(* is the integer |lat1 - lat2| in the matching length unit.  Latitudes    *)
(* are multiples of Scale, which makes every centroid (a mean of at most   *)
(* MaxPoints latitudes) an integer as well.  Two grid steps (2 * Scale     *)
(* units) are the DBSCAN radius eps.                                       *)
(*                                                                         *)
(* Scores.  urgency_score and the scorer's weights have one decimal place   *)
(* at most (factor 0.8, weight -0.2); both are held multiplied by 10.      *)
(***************************************************************************)
EXTENDS Integers, Sequences, FiniteSets, TLC

VARIABLES
    points,           \* TagBasedOptimizer.points: the input list
    team_type,        \* optimize_route argument
    max_hours,        \* optimize_route argument
    start_point,      \* optimize_route argument, NoPoint when absent
    pc,               \* position inside optimize_route
    team_points,      \* local of optimize_route
    priority_groups,  \* local: priority -> list of points
    clusters,         \* local: DBSCAN label -> list of points
    sel_tier,         \* _select_points_by_priority: index into priority_order
    sel_pos,          \* _select_points_by_priority: index into the tier, 0 = not entered
    selected,         \* _select_points_by_priority: selected
    time_used,        \* _select_points_by_priority: time_used
    cluster_routes,   \* result of _optimize_clusters
    final_route,      \* local of optimize_route
    result,           \* the RouteResult returned, NoResult before the return
    route_in,         \* _two_opt_improvement: its argument route
    current_route,    \* _two_opt_improvement: current_route
    improved,         \* _two_opt_improvement: improved
    opt_i,            \* _two_opt_improvement: i
    opt_j,            \* _two_opt_improvement: j
    calls,            \* the calls of _two_opt_improvement made so far
    sched_points,     \* optimize_team_schedule argument points
    teams,            \* optimize_team_schedule argument: list of <<team type, crews>>
    work_hours,       \* optimize_team_schedule argument
    sched_pc,         \* position inside optimize_team_schedule
    points_by_team,   \* local: team type -> scored points, score descending
    team_no,          \* index of the crew type being processed in teams
    point_no,         \* index of the next point of that crew type
    heap,             \* the heapq of (accumulated time, crew index)
    team_schedules,   \* local: crew index -> list of points
    schedule,         \* the dictionary returned
    dropped,          \* history: points that were popped for but not assigned
    table,            \* the rows of maintenance_points
    point_ids,        \* RouteRequest.point_ids, <<>> when absent or empty
    tasks,            \* _optimize_clusters: the point lists submitted, in order
    worker,           \* per task: the state of its _nearest_neighbor call
    distance_cache,   \* TagBasedOptimizer.distance_cache: (id, id) -> distance
    finished,         \* the tasks in the order in which they completed
    set_order,        \* the iteration order of a set of points, as a list of ids
    batch_points,     \* create_work_batches argument points
    batch_size,       \* create_work_batches argument batch_size
    strategy,         \* create_work_batches argument strategy
    batches,          \* create_work_batches: batches
    batch_pc,         \* position of create_work_batches: "call" or "return"
    returned          \* the latest _get_distance call: arguments and value

route_vars == <<points, team_type, max_hours, start_point, pc, team_points,
                priority_groups, clusters, sel_tier, sel_pos, selected,
                time_used, cluster_routes, final_route, result>>
refine_vars == <<route_in, current_route, improved, opt_i, opt_j, calls>>
sched_vars == <<sched_points, teams, work_hours, sched_pc, points_by_team,
                team_no, point_no, heap, team_schedules, schedule, dropped>>
api_vars == <<table, point_ids>>
pool_vars == <<tasks, worker, distance_cache, finished, set_order>>
batch_vars == <<batch_points, batch_size, strategy, batches, batch_pc>>
memo_vars == <<returned>>
vars == <<route_vars, refine_vars, sched_vars, api_vars, pool_vars, batch_vars, memo_vars>>

-----------------------------------------------------------------------------
(* Bounds of the model *)

MaxPoints == 4
MaxHours == 2
MaxTeams == 2
MaxRoute == 5
MaxLat == 3
MaxScored == 2

(* Program constants *)

EMERGENCIA == 5
URGENTE == 4
ALTA == 3
MEDIA == 2
BAIXA == 1
StopOverhead == 10
MinutesPerHour == 60
LongJob == 120
MinShift == 1
MaxShift == 12
min_samples == 2

Priority == {EMERGENCIA, URGENTE, ALTA, MEDIA, BAIXA}
TeamType == {"asfalto", "hidraulica", "eletrica", "saneamento", "geral"}

NoPoint == [id |-> 0]
NoResult == [none |-> TRUE]

-----------------------------------------------------------------------------
(* Sequence helpers *)

Range(s) == {s[k] : k \in 1..Len(s)}

RECURSIVE SumSeq(_)
SumSeq(s) == IF s = <<>> THEN 0 ELSE Head(s) + SumSeq(Tail(s))

RECURSIVE SumSet(_, _)
SumSet(S, f) ==
    IF S = {} THEN 0
    ELSE LET x == CHOOSE y \in S : TRUE IN f[x] + SumSet(S \ {x}, f)

Abs(n) == IF n < 0 THEN -n ELSE n

RECURSIVE Lcm1To(_)
Lcm1To(n) ==
    IF n <= 1 THEN 1
    ELSE LET m == Lcm1To(n - 1)
         IN CHOOSE c \in {m * k : k \in 1..n} : c % n = 0 /\
                \A k \in 1..n : (m * k) % n = 0 => c <= m * k

(* The fine unit of latitude: one grid step is Scale units. *)
Scale == Lcm1To(MaxPoints)

-----------------------------------------------------------------------------
(* MaintenancePoint *)

MaintenancePoint(id, lat, priority, team, minutes, complaints) ==
    [id |-> id, latitude |-> lat * Scale, longitude |-> 0,
     priority |-> priority, team_type |-> team, estimated_time |-> minutes,
     complaints_count |-> complaints, near_critical |-> FALSE,
     main_road |-> FALSE, affects_traffic |-> FALSE,
     affects_commerce |-> FALSE, requires_road_block |-> FALSE,
     neighborhood |-> "Centro", days_waiting |-> 0]

coordinates(p) == <<p.latitude, p.longitude>>

(* MaintenancePoint.urgency_score, multiplied by 10 *)
urgency_score(p) ==
    LET score == p.priority * 100 + p.complaints_count * 10
                 + (IF p.near_critical THEN 50 ELSE 0)
                 + (IF p.main_road THEN 30 ELSE 0)
                 + (IF p.affects_traffic THEN 25 ELSE 0)
                 + (IF p.affects_commerce THEN 20 ELSE 0)
    IN IF p.estimated_time > LongJob THEN score * 8 ELSE score * 10

(* haversine_distance on one meridian: R * |delta_lat| *)
haversine_distance(coord1, coord2) == Abs(coord2[1] - coord1[1])

(* list.sort / sorted: a stable sort of [key, val] records, ascending key *)
RECURSIVE InsertByKey(_, _)
InsertByKey(sorted, x) ==
    IF sorted = <<>> THEN <<x>>
    ELSE IF Head(sorted).key <= x.key
         THEN <<Head(sorted)>> \o InsertByKey(Tail(sorted), x)
         ELSE <<x>> \o sorted

RECURSIVE SortByKey(_)
SortByKey(s) ==
    IF s = <<>> THEN <<>>
    ELSE InsertByKey(SortByKey(SubSeq(s, 1, Len(s) - 1)), s[Len(s)])

Vals(s) == [k \in 1..Len(s) |-> s[k].val]

-----------------------------------------------------------------------------
(* TagBasedOptimizer._get_distance.  The cache is keyed by (p1.id, p2.id); *)
(* on one optimizer instance whose points have distinct ids the entry of a *)
(* key, once written, is the distance of that pair, so a lookup returns    *)
(* what the computation returns.                                           *)
_get_distance(p1, p2) == haversine_distance(coordinates(p1), coordinates(p2))

(* TagBasedOptimizer._group_by_priority *)
_group_by_priority(pts) ==
    [pr \in {pts[k].priority : k \in 1..Len(pts)} |->
        LET InTier(p) == p.priority = pr IN SelectSeq(pts, InTier)]

(* points.sort(key=lambda p: p.urgency_score, reverse=True) *)
SortByUrgency(pts) ==
    Vals(SortByKey([k \in 1..Len(pts) |->
                      [key |-> 0 - urgency_score(pts[k]), val |-> pts[k]]]))

(* mutant of priority_order: lowest priority first *)
priority_order_Ascending == <<BAIXA, MEDIA, ALTA, URGENTE, EMERGENCIA>>

priority_order == <<EMERGENCIA, URGENTE, ALTA, MEDIA, BAIXA>>

(* time_needed = point.estimated_time + 10 *)
time_needed(p) == p.estimated_time + StopOverhead

(* mutants of Fits: the overhead forgotten; the point's time forgotten; a   *)
(* strict comparison                                                         *)
Fits_NoOverhead(used, p, max_minutes) == used + p.estimated_time <= max_minutes
Fits_UsedOnly(used, p, max_minutes) == used <= max_minutes
Fits_Strict(used, p, max_minutes) == used + time_needed(p) < max_minutes

(* mutant of Fits: every point is admitted *)
Fits_Always(used, p, max_minutes) == TRUE

(* time_used + time_needed <= max_minutes *)
Fits(used, p, max_minutes) == used + time_needed(p) <= max_minutes

-----------------------------------------------------------------------------
(* TagBasedOptimizer._create_geographical_clusters: DBSCAN(eps, min_samples *)
(* = 2) over the haversine metric; labels_ numbers the clusters in the      *)
(* order of their first core point and gives -1 to noise.                   *)

(* eps = 0.01 rad is two grid steps *)
eps == 2 * Scale

EpsNeighbors(pts, i) ==
    {j \in 1..Len(pts) :
        haversine_distance(coordinates(pts[i]), coordinates(pts[j])) <= eps}

IsCore(pts, i) == Cardinality(EpsNeighbors(pts, i)) >= min_samples

RECURSIVE DensityReachable(_, _)
DensityReachable(pts, S) ==
    LET more == S \cup UNION {EpsNeighbors(pts, i) : i \in {k \in S : IsCore(pts, k)}}
    IN IF more = S THEN S ELSE DensityReachable(pts, more)

RECURSIVE DbscanLabels(_, _, _, _)
DbscanLabels(pts, i, labels, label_num) ==
    IF i > Len(pts) THEN labels
    ELSE IF labels[i] # -1 \/ ~IsCore(pts, i)
         THEN DbscanLabels(pts, i + 1, labels, label_num)
         ELSE LET reach == DensityReachable(pts, {i})
                  new == [k \in 1..Len(pts) |->
                             IF k \in reach /\ labels[k] = -1
                             THEN label_num ELSE labels[k]]
              IN DbscanLabels(pts, i + 1, new, label_num + 1)

labels_(pts) == DbscanLabels(pts, 1, [k \in 1..Len(pts) |-> -1], 0)

_create_geographical_clusters(pts) ==
    IF Len(pts) < 2 THEN [label \in {0} |-> pts]
    ELSE LET lab == labels_(pts)
         IN [label \in {lab[k] : k \in 1..Len(pts)} |->
                LET idx == SelectSeq([k \in 1..Len(pts) |-> k],
                                     LAMBDA k : lab[k] = label)
                IN [k \in 1..Len(idx) |-> pts[idx[k]]]]

-----------------------------------------------------------------------------
(* TagBasedOptimizer._optimize_clusters *)

(* point_to_cluster.get(point.id, -1) *)
point_to_cluster(cl, p) ==
    IF \E label \in DOMAIN cl : \E q \in Range(cl[label]) : q.id = p.id
    THEN CHOOSE label \in DOMAIN cl : \E q \in Range(cl[label]) : q.id = p.id
    ELSE -1

(* mutant of ClusterOrder: the label -1 of the noise points is passed over  *)
RECURSIVE ClusterOrder_NoNoise(_, _, _)
ClusterOrder_NoNoise(cl, pts, seen) ==
    IF pts = <<>> THEN seen
    ELSE LET c == point_to_cluster(cl, Head(pts))
         IN ClusterOrder_NoNoise(cl, Tail(pts),
                IF c \in Range(seen) \/ c = -1 THEN seen ELSE Append(seen, c))

(* selected_clusters.values(): the selected points of each cluster, the     *)
(* clusters in the order in which the selection first meets them.           *)
RECURSIVE ClusterOrder(_, _, _)
ClusterOrder(cl, pts, seen) ==
    IF pts = <<>> THEN seen
    ELSE LET c == point_to_cluster(cl, Head(pts))
         IN ClusterOrder(cl, Tail(pts),
                IF c \in Range(seen) THEN seen ELSE Append(seen, c))

selected_clusters(pts, cl) ==
    LET order == ClusterOrder(cl, pts, <<>>)
    IN [k \in 1..Len(order) |->
           SelectSeq(pts, LAMBDA p : point_to_cluster(cl, p) = order[k])]

(* TagBasedOptimizer._nearest_neighbor.  min() over a Python set returns    *)
(* the first minimal element in the set's iteration order, which the code   *)
(* does not control: every nearest unvisited point is a possible choice.    *)
RECURSIVE NearestNeighborFrom(_, _)
NearestNeighborFrom(route, unvisited) ==
    IF unvisited = {} THEN {route}
    ELSE LET current == route[Len(route)]
             nearest == {p \in unvisited : \A q \in unvisited :
                            _get_distance(current, p) <= _get_distance(current, q)}
         IN UNION {NearestNeighborFrom(Append(route, p), unvisited \ {p}) :
                      p \in nearest}

_nearest_neighbor(pts) ==
    IF Len(pts) <= 1 THEN {pts}
    ELSE NearestNeighborFrom(<<pts[1]>>, Range(Tail(pts)))

(* every list of futures' results, one tour per submitted cluster, in the   *)
(* order of submission                                                       *)
RECURSIVE ClusterRouteLists(_)
ClusterRouteLists(groups) ==
    IF groups = <<>> THEN {<<>>}
    ELSE {<<r>> \o rest : r \in _nearest_neighbor(Head(groups)),
                          rest \in ClusterRouteLists(Tail(groups))}

_optimize_clusters(pts, cl) == ClusterRouteLists(selected_clusters(pts, cl))

-----------------------------------------------------------------------------
(* TagBasedOptimizer._connect_clusters *)

(* _calculate_centroid *)
_calculate_centroid(pts) ==
    IF pts = <<>> THEN <<0, 0>>
    ELSE << SumSeq([k \in 1..Len(pts) |-> pts[k].latitude]) \div Len(pts),
            SumSeq([k \in 1..Len(pts) |-> pts[k].longitude]) \div Len(pts) >>

(* G.edges of the complete graph over nodes 0..n-1, as networkx lists them *)
RECURSIVE GraphEdges(_, _, _)
GraphEdges(i, j, n) ==
    IF i >= n - 1 THEN <<>>
    ELSE IF j >= n THEN GraphEdges(i + 1, i + 2, n)
         ELSE <<<<i, j>>>> \o GraphEdges(i, j + 1, n)

(* Kruskal: the edges by weight (a stable sort), each kept when it joins    *)
(* two components                                                            *)
RECURSIVE KruskalScan(_, _, _)
KruskalScan(edges, comp, kept) ==
    IF edges = <<>> THEN kept
    ELSE LET u == Head(edges)[1]
             v == Head(edges)[2]
         IN IF comp[u] = comp[v]
            THEN KruskalScan(Tail(edges), comp, kept)
            ELSE KruskalScan(Tail(edges),
                     [x \in DOMAIN comp |->
                         IF comp[x] = comp[v] THEN comp[u] ELSE comp[x]],
                     Append(kept, Head(edges)))

minimum_spanning_tree(centroid) ==
    LET n == Len(centroid)
        edges == GraphEdges(0, 1, n)
        weighted == [k \in 1..Len(edges) |->
            [key |-> haversine_distance(centroid[edges[k][1] + 1],
                                        centroid[edges[k][2] + 1]),
             val |-> edges[k]]]
    IN KruskalScan(Vals(SortByKey(weighted)), [x \in 0..(n - 1) |-> x], <<>>)

(* the neighbours of u in the tree, in the order its edges were added *)
RECURSIVE Adjacent(_, _)
Adjacent(mst, u) ==
    IF mst = <<>> THEN <<>>
    ELSE (IF Head(mst)[1] = u THEN <<Head(mst)[2]>>
          ELSE IF Head(mst)[2] = u THEN <<Head(mst)[1]>> ELSE <<>>)
         \o Adjacent(Tail(mst), u)

RECURSIVE DfsVisit(_, _, _)
RECURSIVE DfsChildren(_, _, _)
DfsVisit(mst, u, order) == DfsChildren(mst, Adjacent(mst, u), Append(order, u))
DfsChildren(mst, nbrs, order) ==
    IF nbrs = <<>> THEN order
    ELSE DfsChildren(mst, Tail(nbrs),
             IF Head(nbrs) \in Range(order) THEN order
             ELSE DfsVisit(mst, Head(nbrs), order))

(* mutant of dfs_preorder_nodes: the source, then the other nodes by index *)
dfs_preorder_nodes_ByIndex(mst, source) ==
    LET nodes == {source} \cup UNION {{e[1], e[2]} : e \in Range(mst)}
        rest == SelectSeq([k \in 1..Cardinality(nodes) |-> k - 1],
                          LAMBDA v : v # source)
    IN <<source>> \o rest

dfs_preorder_nodes(mst, source) == DfsVisit(mst, source, <<>>)

(* the loop over nodes keeping the first strictly nearest centroid *)
RECURSIVE NearestNode(_, _, _, _, _)
NearestNode(centroid, coord, node, min_dist, start_node) ==
    IF node >= Len(centroid) THEN start_node
    ELSE LET dist == haversine_distance(coord, centroid[node + 1])
         IN IF min_dist = -1 \/ dist < min_dist
            THEN NearestNode(centroid, coord, node + 1, dist, node)
            ELSE NearestNode(centroid, coord, node + 1, min_dist, start_node)

(* mutant of StartNode: the tour begins at the last cluster *)
StartNode_Last(centroid, start) == Len(centroid) - 1

(* start_node = 0, or with a start point the node of the nearest centroid *)
StartNode(centroid, start) ==
    IF start = NoPoint THEN 0
    ELSE NearestNode(centroid, coordinates(start), 0, -1, 0)

RECURSIVE Concat(_)
Concat(ss) == IF ss = <<>> THEN <<>> ELSE Head(ss) \o Concat(Tail(ss))

_connect_clusters(routes, start) ==
    IF routes = <<>> THEN <<>>
    ELSE IF Len(routes) = 1 THEN routes[1]
    ELSE LET centroid == [k \in 1..Len(routes) |-> _calculate_centroid(routes[k])]
             mst == minimum_spanning_tree(centroid)
             visit_order == dfs_preorder_nodes(mst, StartNode(centroid, start))
         IN Concat([k \in 1..Len(visit_order) |-> routes[visit_order[k] + 1]])

-----------------------------------------------------------------------------
(* TagBasedOptimizer._two_opt_improvement, indices as in the code (from 0) *)

At(route, k) == route[k + 1]

old_distance(route, i, j) ==
    _get_distance(At(route, i - 1), At(route, i))
    + _get_distance(At(route, j - 1), At(route, j % Len(route)))

(* mutant of new_distance: the new pair of edges is counted one unit short, *)
(* so a reversal that changes nothing is accepted                            *)
new_distance_Discounted(route, i, j) ==
    _get_distance(At(route, i - 1), At(route, j - 1))
    + _get_distance(At(route, i), At(route, j % Len(route))) - 1

new_distance(route, i, j) ==
    _get_distance(At(route, i - 1), At(route, j - 1))
    + _get_distance(At(route, i), At(route, j % Len(route)))

(* mutant of ReverseSlice: current_route[i:j+1] reversed *)
ReverseSlice_Inclusive(route, i, j) ==
    [k \in 1..Len(route) |->
        IF i + 1 <= k /\ k <= j + 1 /\ j + 1 <= Len(route)
        THEN route[i + 2 + j - k] ELSE route[k]]

(* current_route[i:j] = reversed(current_route[i:j]) *)
ReverseSlice(route, i, j) ==
    [k \in 1..Len(route) |->
        IF i + 1 <= k /\ k <= j THEN route[i + 1 + j - k] ELSE route[k]]

(* mutant of Returned: the route comes back rotated by one stop *)
Returned_Rotated(current) ==
    IF current = <<>> THEN current ELSE Tail(current) \o <<Head(current)>>

(* `return current_route` *)
Returned(current) == current

(* for i in range(1, len - 2): for j in range(i + 1, len) *)
FirstI == 1
LastI(route) == Len(route) - 3
LastJ(route) == Len(route) - 1

(* mutant of _calculate_total_distance: the way back is not counted *)
_calculate_total_distance_Open(route) ==
    IF Len(route) < 2 THEN 0
    ELSE SumSeq([k \in 1..(Len(route) - 1) |-> _get_distance(route[k], route[k + 1])])

(* TagBasedOptimizer._calculate_total_distance *)
_calculate_total_distance(route) ==
    IF Len(route) < 2 THEN 0
    ELSE SumSeq([k \in 1..(Len(route) - 1) |-> _get_distance(route[k], route[k + 1])])
         + _get_distance(route[Len(route)], route[1])

(* TagBasedOptimizer._generate_statistics; <<>> is the empty dictionary *)
_generate_statistics(route) ==
    IF route = <<>> THEN <<>>
    ELSE [total_points |-> Len(route),
          emergencies |-> Len(SelectSeq(route, LAMBDA p : p.priority = EMERGENCIA)),
          urgent |-> Len(SelectSeq(route, LAMBDA p : p.priority = URGENTE)),
          complaints_resolved |->
              SumSeq([k \in 1..Len(route) |-> route[k].complaints_count]),
          main_roads |-> Len(SelectSeq(route, LAMBDA p : p.main_road)),
          critical_locations |-> Len(SelectSeq(route, LAMBDA p : p.near_critical)),
          neighborhoods |-> Cardinality({route[k].neighborhood : k \in 1..Len(route)}),
          road_blocks_needed |->
              Len(SelectSeq(route, LAMBDA p : p.requires_road_block))]

RouteResult(route, total_distance, total_time, team, statistics) ==
    [route |-> route, total_distance |-> total_distance,
     total_time |-> total_time, team_type |-> team, statistics |-> statistics]

-----------------------------------------------------------------------------
(* optimize_route, step by step *)

(* lines 31-37: filter by crew type, group, cluster; the early return *)
Prepare ==
    /\ pc = "start"
    /\ LET tp == SelectSeq(points, LAMBDA p : p.team_type = team_type)
       IN /\ team_points' = tp
          /\ IF tp = <<>>
             THEN /\ result' = RouteResult(<<>>, 0, 0, team_type, <<>>)
                  /\ pc' = "done"
                  /\ UNCHANGED <<priority_groups, clusters>>
             ELSE /\ priority_groups' = _group_by_priority(tp)
                  /\ clusters' = _create_geographical_clusters(tp)
                  /\ pc' = "select"
                  /\ UNCHANGED result
    /\ UNCHANGED <<points, team_type, max_hours, start_point, sel_tier, sel_pos,
                   selected, time_used, cluster_routes, final_route>>
    /\ UNCHANGED <<refine_vars, sched_vars, api_vars, pool_vars, batch_vars, memo_vars>>

max_minutes == max_hours * MinutesPerHour
tier_priority == priority_order[sel_tier]
tier_points == priority_groups[tier_priority]

(* leaving the inner loop: `if time_used >= max_minutes: break`, else the   *)
(* next priority, and `return selected` after the last one                  *)
LeaveTier(used) ==
    IF used >= max_minutes \/ sel_tier = Len(priority_order)
    THEN pc' = "optimize_clusters" /\ UNCHANGED <<sel_tier, sel_pos>>
    ELSE pc' = "select" /\ sel_tier' = sel_tier + 1 /\ sel_pos' = 0

(* `if priority not in priority_groups: continue` *)
SelectSkipTier ==
    /\ pc = "select" /\ sel_pos = 0
    /\ tier_priority \notin DOMAIN priority_groups
    /\ IF sel_tier = Len(priority_order)
       THEN pc' = "optimize_clusters" /\ UNCHANGED sel_tier
       ELSE pc' = "select" /\ sel_tier' = sel_tier + 1
    /\ UNCHANGED <<points, team_type, max_hours, start_point, team_points,
                   priority_groups, clusters, sel_pos, selected, time_used,
                   cluster_routes, final_route, result>>
    /\ UNCHANGED <<refine_vars, sched_vars, api_vars, pool_vars, batch_vars, memo_vars>>

(* `points.sort(key=urgency_score, reverse=True)`, in place *)
SelectSortTier ==
    /\ pc = "select" /\ sel_pos = 0
    /\ tier_priority \in DOMAIN priority_groups
    /\ priority_groups' =
           [priority_groups EXCEPT ![tier_priority] = SortByUrgency(@)]
    /\ sel_pos' = 1
    /\ UNCHANGED <<points, team_type, max_hours, start_point, pc, team_points,
                   clusters, sel_tier, selected, time_used, cluster_routes,
                   final_route, result>>
    /\ UNCHANGED <<refine_vars, sched_vars, api_vars, pool_vars, batch_vars, memo_vars>>

(* the point fits: selected.append(point); time_used += time_needed *)
SelectAdmit ==
    /\ pc = "select" /\ sel_pos >= 1 /\ sel_pos <= Len(tier_points)
    /\ Fits(time_used, tier_points[sel_pos], max_minutes)
    /\ selected' = Append(selected, tier_points[sel_pos])
    /\ time_used' = time_used + time_needed(tier_points[sel_pos])
    /\ sel_pos' = sel_pos + 1
    /\ UNCHANGED <<points, team_type, max_hours, start_point, pc, team_points,
                   priority_groups, clusters, sel_tier, cluster_routes,
                   final_route, result>>
    /\ UNCHANGED <<refine_vars, sched_vars, api_vars, pool_vars, batch_vars, memo_vars>>

(* the point does not fit: `break` *)
SelectBreak ==
    /\ pc = "select" /\ sel_pos >= 1 /\ sel_pos <= Len(tier_points)
    /\ ~Fits(time_used, tier_points[sel_pos], max_minutes)
    /\ LeaveTier(time_used)
    /\ UNCHANGED <<points, team_type, max_hours, start_point, team_points,
                   priority_groups, clusters, selected, time_used,
                   cluster_routes, final_route, result>>
    /\ UNCHANGED <<refine_vars, sched_vars, api_vars, pool_vars, batch_vars, memo_vars>>

(* the tier is exhausted *)
SelectTierDone ==
    /\ pc = "select" /\ sel_pos >= 1 /\ sel_pos = Len(tier_points) + 1
    /\ LeaveTier(time_used)
    /\ UNCHANGED <<points, team_type, max_hours, start_point, team_points,
                   priority_groups, clusters, selected, time_used,
                   cluster_routes, final_route, result>>
    /\ UNCHANGED <<refine_vars, sched_vars, api_vars, pool_vars, batch_vars, memo_vars>>

(* line 44 *)
OptimizeClusters ==
    /\ pc = "optimize_clusters"
    /\ cluster_routes' \in _optimize_clusters(selected, clusters)
    /\ pc' = "connect"
    /\ UNCHANGED <<points, team_type, max_hours, start_point, team_points,
                   priority_groups, clusters, sel_tier, sel_pos, selected,
                   time_used, final_route, result>>
    /\ UNCHANGED <<refine_vars, sched_vars, api_vars, pool_vars, batch_vars, memo_vars>>

(* line 46 *)
ConnectClusters ==
    /\ pc = "connect"
    /\ final_route' = _connect_clusters(cluster_routes, start_point)
    /\ pc' = "two_opt"
    /\ UNCHANGED <<points, team_type, max_hours, start_point, team_points,
                   priority_groups, clusters, sel_tier, sel_pos, selected,
                   time_used, cluster_routes, result>>
    /\ UNCHANGED <<refine_vars, sched_vars, api_vars, pool_vars, batch_vars, memo_vars>>

pipeline_inputs == <<points, team_type, max_hours, start_point, team_points,
                     priority_groups, clusters, sel_tier, sel_pos, selected,
                     time_used, cluster_routes, result>>

(* line 48, lines 222-226: the call; a route of fewer than 4 points is      *)
(* returned as it is                                                         *)
TwoOptEnter ==
    /\ pc = "two_opt"
    /\ route_in' = final_route
    /\ calls' = calls + 1
    /\ IF Len(final_route) < 4
       THEN pc' = "finish" /\ UNCHANGED <<current_route, improved>>
       ELSE pc' = "two_opt_while" /\ current_route' = final_route
            /\ improved' = TRUE
    /\ UNCHANGED <<opt_i, opt_j, final_route, pipeline_inputs, sched_vars, api_vars, pool_vars, batch_vars, memo_vars>>

(* `while improved:` and the return of current_route *)
TwoOptWhile ==
    /\ pc = "two_opt_while"
    /\ IF improved
       THEN /\ improved' = FALSE
            /\ opt_i' = FirstI /\ opt_j' = FirstI + 1
            /\ pc' = IF FirstI <= LastI(current_route)
                     THEN "two_opt_scan" ELSE "two_opt_while"
            /\ UNCHANGED final_route
       ELSE /\ final_route' = Returned(current_route)
            /\ pc' = "finish"
            /\ UNCHANGED <<improved, opt_i, opt_j>>
    /\ UNCHANGED <<route_in, current_route, calls, pipeline_inputs, sched_vars, api_vars, pool_vars, batch_vars, memo_vars>>

(* one iteration of the inner loop over j *)
TwoOptScan ==
    /\ pc = "two_opt_scan"
    /\ IF opt_j - opt_i # 1
          /\ new_distance(current_route, opt_i, opt_j)
               < old_distance(current_route, opt_i, opt_j)
       THEN /\ current_route' = ReverseSlice(current_route, opt_i, opt_j)
            /\ improved' = TRUE
       ELSE UNCHANGED <<current_route, improved>>
    /\ IF opt_j < LastJ(current_route)
       THEN opt_j' = opt_j + 1 /\ UNCHANGED <<opt_i, pc>>
       ELSE IF opt_i < LastI(current_route)
            THEN opt_i' = opt_i + 1 /\ opt_j' = opt_i + 2 /\ UNCHANGED pc
            ELSE pc' = "two_opt_while" /\ UNCHANGED <<opt_i, opt_j>>
    /\ UNCHANGED <<route_in, final_route, calls, pipeline_inputs, sched_vars, api_vars, pool_vars, batch_vars, memo_vars>>

(* lines 50-60 *)
Finish ==
    /\ pc = "finish"
    /\ result' = RouteResult(final_route,
                     _calculate_total_distance(final_route),
                     SumSeq([k \in 1..Len(final_route) |->
                                final_route[k].estimated_time]),
                     team_type,
                     _generate_statistics(final_route))
    /\ pc' = "done"
    /\ UNCHANGED <<points, team_type, max_hours, start_point, team_points,
                   priority_groups, clusters, sel_tier, sel_pos, selected,
                   time_used, cluster_routes, final_route>>
    /\ UNCHANGED <<refine_vars, sched_vars, api_vars, pool_vars, batch_vars, memo_vars>>

-----------------------------------------------------------------------------
(* IntelligentPrioritizer.calculate_priority_scores; scores and weights     *)
(* multiplied by 10                                                          *)

W_priority_base == 1000
W_complaints == 100
W_critical_location == 500
W_main_road == 300
W_traffic_impact == 250
W_commerce_impact == 200
W_time_waiting == 20
W_cluster_bonus == 150
W_efficiency_penalty == -2

(* radius_km = 0.5 in fine units of latitude: 2 * Scale units are 0.01 rad, *)
(* 63.71 km                                                                  *)
radius_km == (Scale * 2 * 500) \div 63710

(* mutant of cluster_size: the point is counted among its own neighbours   *)
cluster_size_WithSelf(pts, k) ==
    Cardinality({j \in 1..Len(pts) :
        haversine_distance(coordinates(pts[k]), coordinates(pts[j]))
            <= radius_km})

(* _create_proximity_clusters: len(clusters[point.id]), the number of       *)
(* entries appended under the point's id                                     *)
cluster_size(pts, k) ==
    Cardinality({pair \in (1..Len(pts)) \X (1..Len(pts)) :
        /\ pair[1] # pair[2]
        /\ pts[pair[1]].id = pts[k].id
        /\ haversine_distance(coordinates(pts[pair[1]]),
                              coordinates(pts[pair[2]])) <= radius_km})

factors(pts, k) ==
    LET p == pts[k]
        size == cluster_size(pts, k)
        present ==
            {"priority_base"}
            \cup (IF p.complaints_count > 0 THEN {"complaints"} ELSE {})
            \cup (IF p.near_critical THEN {"critical_location"} ELSE {})
            \cup (IF p.main_road THEN {"main_road"} ELSE {})
            \cup (IF p.affects_traffic THEN {"traffic_impact"} ELSE {})
            \cup (IF p.affects_commerce THEN {"commerce_impact"} ELSE {})
            \cup (IF p.days_waiting > 0 THEN {"time_waiting"} ELSE {})
            \cup (IF size > 1 THEN {"cluster_bonus"} ELSE {})
            \cup (IF p.estimated_time > LongJob THEN {"efficiency_penalty"} ELSE {})
    IN [f \in present |->
           CASE f = "priority_base" -> p.priority * W_priority_base
             [] f = "complaints" -> p.complaints_count * W_complaints
             [] f = "critical_location" -> W_critical_location
             [] f = "main_road" -> W_main_road
             [] f = "traffic_impact" -> W_traffic_impact
             [] f = "commerce_impact" -> W_commerce_impact
             [] f = "time_waiting" -> p.days_waiting * W_time_waiting
             [] f = "cluster_bonus" -> (size - 1) * W_cluster_bonus
             [] f = "efficiency_penalty" ->
                    (p.estimated_time - LongJob) * W_efficiency_penalty]

(* mutant of PriorityScore: the priority term is left out of the sum *)
PriorityScore_NoBase(pts, k) ==
    LET fs == factors(pts, k)
    IN [point |-> pts[k], score |-> SumSet(DOMAIN fs \ {"priority_base"}, fs),
        factors |-> fs]

PriorityScore(pts, k) ==
    LET fs == factors(pts, k)
    IN [point |-> pts[k], score |-> SumSet(DOMAIN fs, fs), factors |-> fs]

(* scores: one PriorityScore per point, in the order of the input; then    *)
(* sorted(scores) under PriorityScore.__lt__: score descending, stable      *)
RECURSIVE ScoresOf(_, _)
ScoresOf(pts, n) ==
    IF n = 0 THEN <<>>
    ELSE Append(ScoresOf(pts, n - 1), PriorityScore(pts, n))

calculate_priority_scores(pts) ==
    LET scores == ScoresOf(pts, Len(pts))
    IN Vals(SortByKey([k \in 1..Len(pts) |->
           [key |-> 0 - scores[k].score, val |-> scores[k]]]))

-----------------------------------------------------------------------------
(* IntelligentPrioritizer.optimize_team_schedule, step by step *)

(* mutant of heappop: the greatest tuple *)
heappop_Max(h) ==
    CHOOSE e \in h : \A f \in h : e[1] > f[1] \/ (e[1] = f[1] /\ e[2] >= f[2])

(* the tuple heapq.heappop returns: the least (time, crew index) *)
heappop(h) ==
    CHOOSE e \in h : \A f \in h : e[1] < f[1] \/ (e[1] = f[1] /\ e[2] <= f[2])

max_time == work_hours * MinutesPerHour
this_team == teams[team_no][1]
num_teams == teams[team_no][2]
score_obj == points_by_team[this_team][point_no]

(* current_time + point.estimated_time <= max_time *)
CrewFits(current_time, p) == current_time + p.estimated_time <= max_time

(* mutant of new_time: the 10 minutes are not added *)
new_time_NoOverhead(current_time, p) == current_time + p.estimated_time

(* new_time = current_time + point.estimated_time + 10 *)
new_time(current_time, p) == current_time + p.estimated_time + StopOverhead

(* lines 120-126 *)
SchedStart ==
    /\ sched_pc = "start"
    /\ LET scored_points == calculate_priority_scores(sched_points)
       IN points_by_team' =
              [t \in {scored_points[k].point.team_type : k \in 1..Len(scored_points)} |->
                  SelectSeq(scored_points, LAMBDA s : s.point.team_type = t)]
    /\ schedule' = <<>>
    /\ team_no' = 1
    /\ sched_pc' = "team"
    /\ UNCHANGED <<sched_points, teams, work_hours, point_no, heap,
                   team_schedules, dropped>>
    /\ UNCHANGED <<route_vars, refine_vars, api_vars, pool_vars, batch_vars, memo_vars>>

(* `if team_type not in points_by_team: continue` *)
SchedSkipTeam ==
    /\ sched_pc = "team" /\ team_no <= Len(teams)
    /\ this_team \notin DOMAIN points_by_team
    /\ team_no' = team_no + 1
    /\ UNCHANGED <<sched_points, teams, work_hours, sched_pc, points_by_team,
                   point_no, heap, team_schedules, schedule, dropped>>
    /\ UNCHANGED <<route_vars, refine_vars, api_vars, pool_vars, batch_vars, memo_vars>>

(* lines 132-138: the crews' lists and the heap of (0, i) *)
SchedBeginTeam ==
    /\ sched_pc = "team" /\ team_no <= Len(teams)
    /\ this_team \in DOMAIN points_by_team
    /\ team_schedules' = [i \in 0..(num_teams - 1) |-> <<>>]
    /\ heap' = {<<0, i>> : i \in 0..(num_teams - 1)}
    /\ point_no' = 1
    /\ sched_pc' = "points"
    /\ UNCHANGED <<sched_points, teams, work_hours, points_by_team, team_no,
                   schedule, dropped>>
    /\ UNCHANGED <<route_vars, refine_vars, api_vars, pool_vars, batch_vars, memo_vars>>

(* the popped crew takes the point and is pushed back *)
SchedAssign ==
    /\ sched_pc = "points" /\ point_no <= Len(points_by_team[this_team])
    /\ heap # {}
    /\ LET top == heappop(heap)
           point == score_obj.point
       IN /\ CrewFits(top[1], point)
          /\ team_schedules' =
                 [team_schedules EXCEPT ![top[2]] = Append(@, point)]
          /\ heap' = (heap \ {top}) \cup {<<new_time(top[1], point), top[2]>>}
    /\ point_no' = point_no + 1
    /\ UNCHANGED <<sched_points, teams, work_hours, sched_pc, points_by_team,
                   team_no, schedule, dropped>>
    /\ UNCHANGED <<route_vars, refine_vars, api_vars, pool_vars, batch_vars, memo_vars>>

(* the point does not fit the popped crew: nothing is pushed back *)
SchedDrop ==
    /\ sched_pc = "points" /\ point_no <= Len(points_by_team[this_team])
    /\ heap # {}
    /\ LET top == heappop(heap)
           point == score_obj.point
       IN /\ ~CrewFits(top[1], point)
          /\ heap' = heap \ {top}
          /\ dropped' = dropped \cup {point}
    /\ point_no' = point_no + 1
    /\ UNCHANGED <<sched_points, teams, work_hours, sched_pc, points_by_team,
                   team_no, team_schedules, schedule>>
    /\ UNCHANGED <<route_vars, refine_vars, api_vars, pool_vars, batch_vars, memo_vars>>

(* heapq.heappop of an empty heap raises IndexError *)
SchedPopEmpty ==
    /\ sched_pc = "points" /\ point_no <= Len(points_by_team[this_team])
    /\ heap = {}
    /\ sched_pc' = "IndexError"
    /\ UNCHANGED <<sched_points, teams, work_hours, points_by_team, team_no,
                   point_no, heap, team_schedules, schedule, dropped>>
    /\ UNCHANGED <<route_vars, refine_vars, api_vars, pool_vars, batch_vars, memo_vars>>

(* schedule[team_type] = team_schedules *)
SchedEndTeam ==
    /\ sched_pc = "points" /\ point_no > Len(points_by_team[this_team])
    /\ schedule' = [t \in DOMAIN schedule \cup {this_team} |->
                       IF t = this_team THEN team_schedules ELSE schedule[t]]
    /\ team_no' = team_no + 1
    /\ sched_pc' = "team"
    /\ UNCHANGED <<sched_points, teams, work_hours, points_by_team, point_no,
                   heap, team_schedules, dropped>>
    /\ UNCHANGED <<route_vars, refine_vars, api_vars, pool_vars, batch_vars, memo_vars>>

(* return schedule *)
SchedReturn ==
    /\ sched_pc = "team" /\ team_no > Len(teams)
    /\ sched_pc' = "done"
    /\ UNCHANGED <<sched_points, teams, work_hours, points_by_team, team_no,
                   point_no, heap, team_schedules, schedule, dropped>>
    /\ UNCHANGED <<route_vars, refine_vars, api_vars, pool_vars, batch_vars, memo_vars>>

-----------------------------------------------------------------------------
(* TagBasedOptimizer._optimize_clusters, thread by thread: one task per     *)
(* selected cluster, run by the threads of ThreadPoolExecutor(max_workers = *)
(* 4), each executing _nearest_neighbor and, through it, _get_distance on   *)
(* the shared distance_cache.  One step is one access to shared state: the  *)
(* membership test, the insertion and the lookup of _get_distance are       *)
(* separate steps, each atomic as a dictionary operation is in CPython.     *)

max_workers == 4

(* a set of points in its iteration order.  The order follows from the      *)
(* points' hashes, which the code does not control but which no thread      *)
(* changes: it is an input, the list set_order of ids.                      *)
InOrder(S) ==
    LET ids == SelectSeq(set_order, LAMBDA id : \E p \in S : p.id = id)
    IN [k \in 1..Len(ids) |-> CHOOSE p \in S : p.id = ids[k]]

(* mutant of cache_key: the second id is left out of the key *)
cache_key_FirstOnly(p1, p2) == <<p1.id, p1.id>>

(* cache_key = (p1.id, p2.id) *)
cache_key(p1, p2) == <<p1.id, p2.id>>

(* mutant of FirstLeast: the first of the greatest keys *)
FirstLeast_Greatest(cands, keys) ==
    cands[CHOOSE i \in 1..Len(keys) :
              /\ \A j \in 1..Len(keys) : keys[i] >= keys[j]
              /\ \A j \in 1..(i - 1) : keys[j] < keys[i]]

(* min(unvisited, key=...): the first of the least keys, in iteration order *)
FirstLeast(cands, keys) ==
    cands[CHOOSE i \in 1..Len(keys) :
              /\ \A j \in 1..Len(keys) : keys[i] <= keys[j]
              /\ \A j \in 1..(i - 1) : keys[j] > keys[i]]

(* mutant of ResultOrder: the results are taken as the tasks complete *)
ResultOrder_Completion(n, completed) == completed

(* `for future in futures`: the futures in the order of submission *)
ResultOrder(n, completed) == [k \in 1..n |-> k]

QueuedTask ==
    [status |-> "queued", phase |-> "enter", route |-> <<>>, unvisited |-> {},
     todo |-> <<>>, keys |-> <<>>, got |-> <<>>]

Running == {k \in DOMAIN worker : worker[k].status = "running"}
Queued == {k \in DOMAIN worker : worker[k].status = "queued"}

pool_frame == <<points, team_type, max_hours, start_point, team_points,
                priority_groups, clusters, sel_tier, sel_pos, selected,
                time_used, final_route, result>>

(* lines 130-148: the selected points of each cluster, one task submitted   *)
(* per cluster                                                               *)
Submit ==
    /\ pc = "optimize_clusters"
    /\ LET groups == selected_clusters(selected, clusters)
       IN /\ tasks' = groups
          /\ worker' = [k \in 1..Len(groups) |-> QueuedTask]
    /\ cluster_routes' = <<>>
    /\ pc' = "pool"
    /\ UNCHANGED <<distance_cache, finished, set_order>>
    /\ UNCHANGED <<pool_frame, refine_vars, sched_vars, api_vars, batch_vars, memo_vars>>

(* a free thread takes the oldest task of the queue *)
WorkerStart ==
    /\ pc = "pool"
    /\ Queued # {} /\ Cardinality(Running) < max_workers
    /\ LET k == CHOOSE q \in Queued : \A r \in Queued : q <= r
       IN worker' = [worker EXCEPT ![k].status = "running"]
    /\ UNCHANGED <<tasks, distance_cache, finished, set_order>>
    /\ UNCHANGED <<pc, cluster_routes, pool_frame, refine_vars, sched_vars,
                   api_vars, batch_vars, memo_vars>>

(* lines 156-160: a list of one point is returned as it is; else the route  *)
(* begins at the first point and the others are unvisited                    *)
WorkerEnter ==
    /\ pc = "pool"
    /\ \E k \in Running :
          /\ worker[k].phase = "enter"
          /\ worker' = [worker EXCEPT ![k] =
                IF Len(tasks[k]) <= 1
                THEN [@ EXCEPT !.phase = "return", !.route = tasks[k]]
                ELSE [@ EXCEPT !.phase = "while",
                               !.route = <<tasks[k][1]>>,
                               !.unvisited = Range(Tail(tasks[k]))]]
    /\ UNCHANGED <<tasks, distance_cache, finished, set_order>>
    /\ UNCHANGED <<pc, cluster_routes, pool_frame, refine_vars, sched_vars,
                   api_vars, batch_vars, memo_vars>>

(* `while unvisited:` and the start of min() over the set *)
WorkerWhile ==
    /\ pc = "pool"
    /\ \E k \in Running :
          /\ worker[k].phase = "while"
          /\ worker' = [worker EXCEPT ![k] =
                IF worker[k].unvisited = {}
                THEN [@ EXCEPT !.phase = "return"]
                ELSE [@ EXCEPT !.phase = "check",
                               !.todo = InOrder(worker[k].unvisited),
                               !.keys = <<>>]]
    /\ UNCHANGED <<tasks, distance_cache, finished, set_order>>
    /\ UNCHANGED <<pc, cluster_routes, pool_frame, refine_vars, sched_vars,
                   api_vars, batch_vars, memo_vars>>

current(w) == w.route[Len(w.route)]

(* _get_distance, `if cache_key not in self.distance_cache` *)
GetDistanceCheck ==
    /\ pc = "pool"
    /\ \E k \in Running :
          /\ worker[k].phase = "check"
          /\ worker' = [worker EXCEPT ![k].phase =
                IF cache_key(current(worker[k]), Head(worker[k].todo))
                       \notin DOMAIN distance_cache
                THEN "store" ELSE "load"]
    /\ UNCHANGED <<tasks, distance_cache, finished, set_order>>
    /\ UNCHANGED <<pc, cluster_routes, pool_frame, refine_vars, sched_vars,
                   api_vars, batch_vars, memo_vars>>

(* _get_distance, `self.distance_cache[cache_key] = haversine_distance(..)` *)
GetDistanceStore ==
    /\ pc = "pool"
    /\ \E k \in Running :
          /\ worker[k].phase = "store"
          /\ LET p1 == current(worker[k])
                 p2 == Head(worker[k].todo)
                 key == cache_key(p1, p2)
             IN distance_cache' =
                    [c \in DOMAIN distance_cache \cup {key} |->
                        IF c = key
                        THEN haversine_distance(coordinates(p1), coordinates(p2))
                        ELSE distance_cache[c]]
          /\ worker' = [worker EXCEPT ![k].phase = "load"]
    /\ UNCHANGED <<tasks, finished, set_order>>
    /\ UNCHANGED <<pc, cluster_routes, pool_frame, refine_vars, sched_vars,
                   api_vars, batch_vars, memo_vars>>

(* _get_distance, `return self.distance_cache[cache_key]`: got is the pair  *)
(* asked for and the value returned.  After the last key min() returns and  *)
(* the nearest point moves from unvisited to route.                         *)
GetDistanceLoad ==
    /\ pc = "pool"
    /\ \E k \in Running :
          /\ worker[k].phase = "load"
          /\ LET w == worker[k]
                 p1 == current(w)
                 p2 == Head(w.todo)
                 value == distance_cache[cache_key(p1, p2)]
                 keys == Append(w.keys, value)
                 got == <<p1.id, p2.id, value>>
             IN worker' = [worker EXCEPT ![k] =
                    IF Tail(w.todo) # <<>>
                    THEN [@ EXCEPT !.phase = "check", !.todo = Tail(w.todo),
                                   !.keys = keys, !.got = got]
                    ELSE LET nearest == FirstLeast(InOrder(w.unvisited), keys)
                         IN [@ EXCEPT !.phase = "while", !.todo = <<>>,
                                      !.keys = keys, !.got = got,
                                      !.route = Append(w.route, nearest),
                                      !.unvisited = w.unvisited \ {nearest}]]
    /\ UNCHANGED <<tasks, distance_cache, finished, set_order>>
    /\ UNCHANGED <<pc, cluster_routes, pool_frame, refine_vars, sched_vars,
                   api_vars, batch_vars, memo_vars>>

(* `return route`: the future of the task is done *)
WorkerReturn ==
    /\ pc = "pool"
    /\ \E k \in Running :
          /\ worker[k].phase = "return"
          /\ worker' = [worker EXCEPT ![k].status = "done"]
          /\ finished' = Append(finished, k)
    /\ UNCHANGED <<tasks, distance_cache, set_order>>
    /\ UNCHANGED <<pc, cluster_routes, pool_frame, refine_vars, sched_vars,
                   api_vars, batch_vars, memo_vars>>

(* lines 150-151: future.result() waits for the next future of the list *)
Collect ==
    /\ pc = "pool"
    /\ LET order == ResultOrder(Len(tasks), finished)
           n == Len(cluster_routes) + 1
       IN /\ n <= Len(order)
          /\ worker[order[n]].status = "done"
          /\ cluster_routes' = Append(cluster_routes, worker[order[n]].route)
    /\ UNCHANGED <<pc, pool_frame, refine_vars, sched_vars, api_vars, pool_vars, batch_vars, memo_vars>>

(* line 153: every result is collected, `return cluster_routes` *)
PoolReturn ==
    /\ pc = "pool"
    /\ Len(cluster_routes) = Len(tasks)
    /\ pc' = "connect"
    /\ UNCHANGED <<cluster_routes, pool_frame, refine_vars, sched_vars,
                   api_vars, pool_vars, batch_vars, memo_vars>>

-----------------------------------------------------------------------------
(* BatchPrioritizer.create_work_batches *)

(* the tiers in the order of the loop of the priority strategy *)
batch_priorities == <<EMERGENCIA, URGENTE, ALTA, MEDIA, BAIXA>>

(* priority_groups[priority]: the points of a tier, in the order of input *)
batch_group(pts, priority) == SelectSeq(pts, LAMBDA p : p.priority = priority)

(* mutant of slices: each slice runs one element into the next slice *)
slices_Overlapping(group, size) ==
    [k \in 1..((Len(group) + size - 1) \div size) |->
        SubSeq(group, (k - 1) * size + 1,
               IF k * size + 1 < Len(group) THEN k * size + 1 ELSE Len(group))]

(* group[i:i + batch_size] for i in range(0, len(group), batch_size); no    *)
(* slice is empty, so `if batch` always holds                                *)
slices(group, size) ==
    [k \in 1..((Len(group) + size - 1) \div size) |->
        SubSeq(group, (k - 1) * size + 1,
               IF k * size < Len(group) THEN k * size ELSE Len(group))]

(* strategy 'priority' *)
priority_batches(pts, size) ==
    Concat([t \in 1..Len(batch_priorities) |->
               slices(batch_group(pts, batch_priorities[t]), size)])

(* n_clusters = max(1, len(points) // batch_size) *)
n_clusters(pts, size) ==
    IF Len(pts) \div size > 1 THEN Len(pts) \div size ELSE 1

(* KMeans(n_clusters).fit_predict(coords) on one meridian: a label for each *)
(* point.  Each cluster is the set of points nearest to its centre, an      *)
(* interval of places; n_clusters clusters are found, or one per distinct   *)
(* place when the places are fewer.  Any such division may be returned: it  *)
(* is given by the southernmost place of each cluster.  The labels are      *)
(* numbered from the south; the caller uses only which points share a       *)
(* label and the order in which the labels first occur.                     *)
fit_predict(pts, k) ==
    LET n == Len(pts)
        places == {pts[i].latitude : i \in 1..n}
        found == IF Cardinality(places) < k THEN Cardinality(places) ELSE k
        south == CHOOSE a \in places : \A b \in places : a <= b
    IN {[i \in 1..n |->
            Cardinality({c \in starts : c <= pts[i].latitude}) - 1] :
           starts \in {S \in SUBSET places :
                          south \in S /\ Cardinality(S) = found}}

(* the points zipped with one label, in the order of input *)
RECURSIVE labelled(_, _, _, _)
labelled(pts, labels, label, n) ==
    IF n = 0 THEN <<>>
    ELSE labelled(pts, labels, label, n - 1)
             \o (IF labels[n] = label THEN <<pts[n]>> ELSE <<>>)

(* list(clusters.values()): one list per label, the labels in the order of  *)
(* their first occurrence                                                    *)
clusters_values(pts, labels) ==
    LET n == Len(pts)
        used == {labels[i] : i \in 1..n}
        first(l) == CHOOSE i \in 1..n :
                        labels[i] = l /\ \A j \in 1..(i - 1) : labels[j] # l
        rank(l) == Cardinality({m \in used : first(m) <= first(l)})
    IN [r \in 1..Cardinality(used) |->
           labelled(pts, labels, CHOOSE l \in used : rank(l) = r, n)]

(* strategy 'geographic': the lists it may return *)
geographic_batches(pts, size) ==
    IF Len(pts) <= size THEN {<<pts>>}
    ELSE {clusters_values(pts, labels) :
              labels \in fit_predict(pts, n_clusters(pts, size))}

(* strategy 'mixed': the lists it may return *)
mixed_batches(pts, size) ==
    LET emergencies == SelectSeq(pts, LAMBDA p : p.priority = EMERGENCIA)
        others == SelectSeq(pts, LAMBDA p : p.priority # EMERGENCIA)
        geo_batches == IF others # <<>> THEN geographic_batches(others, size)
                       ELSE {<<>>}
    IN {(IF emergencies # <<>> THEN <<emergencies>> ELSE <<>>) \o geo :
            geo \in geo_batches}

batch_frame == <<batch_points, batch_size, strategy>>

(* create_work_batches(points, batch_size, 'priority') *)
BatchByPriority ==
    /\ batch_pc = "call" /\ strategy = "priority"
    /\ batches' = priority_batches(batch_points, batch_size)
    /\ batch_pc' = "return"
    /\ UNCHANGED <<batch_frame, route_vars, refine_vars, sched_vars, api_vars,
                   pool_vars, memo_vars>>

(* create_work_batches(points, batch_size, 'geographic') *)
BatchByPlace ==
    /\ batch_pc = "call" /\ strategy = "geographic"
    /\ batches' \in geographic_batches(batch_points, batch_size)
    /\ batch_pc' = "return"
    /\ UNCHANGED <<batch_frame, route_vars, refine_vars, sched_vars, api_vars,
                   pool_vars, memo_vars>>

(* create_work_batches(points, batch_size, 'mixed') *)
BatchMixed ==
    /\ batch_pc = "call" /\ strategy = "mixed"
    /\ batches' \in mixed_batches(batch_points, batch_size)
    /\ batch_pc' = "return"
    /\ UNCHANGED <<batch_frame, route_vars, refine_vars, sched_vars, api_vars,
                   pool_vars, memo_vars>>

(* any other strategy: `return batches` with batches = [] *)
BatchNoStrategy ==
    /\ batch_pc = "call"
    /\ strategy \notin {"priority", "geographic", "mixed"}
    /\ batches' = <<>>
    /\ batch_pc' = "return"
    /\ UNCHANGED <<batch_frame, route_vars, refine_vars, sched_vars, api_vars,
                   pool_vars, memo_vars>>

-----------------------------------------------------------------------------
(* TagBasedOptimizer._get_distance, one call after another on one instance: *)
(* the key is looked up, the distance is computed and stored when the key   *)
(* is missing, and the entry of the key is returned.                         *)
MaxCached == 2

GetDistance ==
    /\ pc = "lookup"
    /\ \E p1 \in Range(points), p2 \in Range(points) :
          LET key == cache_key(p1, p2)
              cache == IF key \notin DOMAIN distance_cache
                       THEN [c \in DOMAIN distance_cache \cup {key} |->
                                IF c = key
                                THEN haversine_distance(coordinates(p1),
                                                        coordinates(p2))
                                ELSE distance_cache[c]]
                       ELSE distance_cache
          IN /\ key \in DOMAIN distance_cache
                    \/ Cardinality(DOMAIN distance_cache) < MaxCached
             /\ distance_cache' = cache
             /\ returned' = [p1 |-> p1, p2 |-> p2, distance |-> cache[key]]
    /\ UNCHANGED <<tasks, worker, finished, set_order>>
    /\ UNCHANGED <<route_vars, refine_vars, sched_vars, api_vars, batch_vars>>

-----------------------------------------------------------------------------
(* Initial states *)

RouteIdle ==
    /\ team_points = <<>> /\ priority_groups = <<>> /\ clusters = <<>>
    /\ sel_tier = 1 /\ sel_pos = 0 /\ selected = <<>> /\ time_used = 0
    /\ cluster_routes = <<>> /\ final_route = <<>> /\ result = NoResult

RefineIdle ==
    /\ route_in = <<>> /\ current_route = <<>> /\ improved = FALSE
    /\ opt_i = 0 /\ opt_j = 0 /\ calls = 0

SchedIdle ==
    /\ sched_points = <<>> /\ teams = <<>> /\ work_hours = 0
    /\ sched_pc = "idle" /\ points_by_team = <<>> /\ team_no = 0
    /\ point_no = 0 /\ heap = {} /\ team_schedules = <<>>
    /\ schedule = <<>> /\ dropped = {}

ApiIdle == table = <<>> /\ point_ids = <<>>

(* self.distance_cache = {} and no task submitted *)
PoolIdle ==
    /\ tasks = <<>> /\ worker = <<>> /\ distance_cache = <<>>
    /\ finished = <<>> /\ set_order = <<>>

(* create_work_batches has not been called *)
BatchIdle ==
    /\ batch_points = <<>> /\ batch_size = 0 /\ strategy = "priority"
    /\ batches = <<>> /\ batch_pc = "idle"

(* _get_distance has not been called *)
MemoIdle == returned = NoResult

(* the lists of at most MaxPoints points, point k with id k and its        *)
(* attributes drawn from Attr(k)                                            *)
RECURSIVE PointListsOf(_, _)
PointListsOf(n, attr) ==
    IF n = 0 THEN {<<>>}
    ELSE {Append(pts, p) : pts \in PointListsOf(n - 1, attr), p \in attr[n]}

PointLists(attr) == UNION {PointListsOf(n, attr) : n \in 0..MaxPoints}

(* Selection: one place, one crew type; priorities and durations vary, and  *)
(* every second point has a complaint, which ranks it first in its tier.    *)
SelectDurations == {20, 45}
SelectPriorities == {EMERGENCIA, ALTA, BAIXA}
SelectPoint(k) ==
    {MaintenancePoint(k, 0, pr, "asfalto", t, k % 2) :
        pr \in SelectPriorities, t \in SelectDurations}

InitSelectLists ==
    /\ points \in PointLists([k \in 1..MaxPoints |-> SelectPoint(k)])
    /\ team_type = "asfalto"
    /\ max_hours \in 1..MaxHours

(* tests/test_optimzer.py, sample_points: the five points of the fixture,   *)
(* south to north on the grid; any crew type and any shift the API accepts  *)
sample_points ==
    << [MaintenancePoint(1, 1, EMERGENCIA, "asfalto", 45, 15)
            EXCEPT !.main_road = TRUE, !.affects_traffic = TRUE, !.days_waiting = 3],
       [MaintenancePoint(2, 1, URGENTE, "hidraulica", 60, 8)
            EXCEPT !.near_critical = TRUE, !.days_waiting = 2],
       [MaintenancePoint(3, 0, ALTA, "asfalto", 20, 3) EXCEPT !.days_waiting = 5],
       [MaintenancePoint(4, 2, MEDIA, "eletrica", 30, 5)
            EXCEPT !.neighborhood = "Sul", !.days_waiting = 1],
       [MaintenancePoint(5, 2, BAIXA, "asfalto", 15, 1)
            EXCEPT !.neighborhood = "Sul", !.days_waiting = 7] >>

InitScenario ==
    /\ points = sample_points
    /\ team_type \in TeamType
    /\ max_hours \in MinShift..MaxShift

(* a single point of the requested crew type, of any priority, with a       *)
(* duration the API accepts (5 to 480 minutes), for every shift             *)
SingleDurations == {5, 45, 50, 480}
InitSingle ==
    /\ points \in {<<MaintenancePoint(1, 0, pr, "asfalto", t, 0)>> :
                      pr \in Priority, t \in SingleDurations}
    /\ team_type = "asfalto"
    /\ max_hours \in MinShift..MaxShift

InitSelect ==
    /\ InitSelectLists \/ InitScenario \/ InitSingle
    /\ start_point = NoPoint
    /\ pc = "start"
    /\ RouteIdle /\ RefineIdle /\ SchedIdle /\ ApiIdle /\ PoolIdle
    /\ BatchIdle /\ MemoIdle

(* Routing: one street.  Grid steps 0, 2 and 4 chain into one cluster (each *)
(* is within eps of the next), 7 is out of reach of all three.  Emergencies *)
(* occur anywhere, low-priority work at the two ends of the street; the     *)
(* first point may be a job of another crew type; the optional start point  *)
(* stands at the far end.                                                    *)
Lats == {0, 2, 4, 7}
EndLats == {0, 7}
RoutePoint(k) ==
    {MaintenancePoint(k, lat, EMERGENCIA, "asfalto", 20, 0) : lat \in Lats}
    \cup {MaintenancePoint(k, lat, BAIXA, "asfalto", 20, 0) : lat \in EndLats}
    \cup (IF k = 1
          THEN {MaintenancePoint(k, 0, EMERGENCIA, "hidraulica", 20, 0)}
          ELSE {})
StartPoints ==
    {NoPoint, MaintenancePoint(MaxPoints + 1, 7, BAIXA, "geral", 20, 0)}

InitRoute ==
    /\ points \in PointLists([k \in 1..MaxPoints |-> RoutePoint(k)])
    /\ team_type = "asfalto"
    /\ max_hours \in {1, MaxHours}
    /\ start_point \in StartPoints
    /\ pc = "start"
    /\ RouteIdle /\ RefineIdle /\ SchedIdle /\ ApiIdle /\ PoolIdle
    /\ BatchIdle /\ MemoIdle

NextRoute ==
    \/ Prepare
    \/ SelectSkipTier
    \/ SelectSortTier
    \/ SelectAdmit
    \/ SelectBreak
    \/ SelectTierDone
    \/ OptimizeClusters
    \/ ConnectClusters
    \/ TwoOptEnter
    \/ TwoOptWhile
    \/ TwoOptScan
    \/ Finish

SpecSelect == InitSelect /\ [][NextRoute]_vars
SpecRoute == InitRoute /\ [][NextRoute]_vars

-----------------------------------------------------------------------------
(* The load balancer: one place and one crew type for the points; the       *)
(* crews of "hidraulica" have nothing to do.                                 *)
SchedPoint(k) ==
    {MaintenancePoint(k, 0, pr, "asfalto", t, 0) :
        pr \in {EMERGENCIA, BAIXA}, t \in SelectDurations}

TeamMaps ==
    {<<<<"asfalto", n>>>> : n \in 1..MaxTeams}
    \cup {<<<<"hidraulica", 1>>, <<"asfalto", n>>>> : n \in 1..MaxTeams}

RouteUnused ==
    /\ points = <<>> /\ team_type = "asfalto" /\ max_hours = 0
    /\ start_point = NoPoint /\ pc = "idle"
    /\ RouteIdle /\ RefineIdle

(* Scoring: a few points at two places half a kilometre apart or more,     *)
(* with or without a crowd of complaints, short or longer than two hours;   *)
(* one crew and the shortest shift.                                          *)
ScoredComplaints == {0, 45}
ScoredDurations == {20, 480}
ScoredPoint(k) ==
    {MaintenancePoint(k, lat, pr, "asfalto", t, n) :
        lat \in {0, 1}, pr \in {EMERGENCIA, BAIXA},
        t \in ScoredDurations, n \in ScoredComplaints}
ScoredLists ==
    UNION {PointListsOf(n, [k \in 1..MaxScored |-> ScoredPoint(k)]) :
              n \in 1..MaxScored}

InitSchedule ==
    /\ \/ /\ sched_points \in PointLists([k \in 1..MaxPoints |-> SchedPoint(k)])
          /\ teams \in TeamMaps
          /\ work_hours \in 1..MaxHours
       \/ /\ sched_points \in ScoredLists
          /\ teams = <<<<"asfalto", 1>>>>
          /\ work_hours = MinShift
    /\ sched_pc = "start"
    /\ points_by_team = <<>> /\ team_no = 0 /\ point_no = 0 /\ heap = {}
    /\ team_schedules = <<>> /\ schedule = <<>> /\ dropped = {}
    /\ RouteUnused /\ ApiIdle /\ PoolIdle
    /\ BatchIdle /\ MemoIdle

NextSchedule ==
    \/ SchedStart
    \/ SchedSkipTeam
    \/ SchedBeginTeam
    \/ SchedAssign
    \/ SchedDrop
    \/ SchedPopEmpty
    \/ SchedEndTeam
    \/ SchedReturn

SpecSchedule == InitSchedule /\ [][NextSchedule]_vars

-----------------------------------------------------------------------------
(* The Tour Refiner on its own: _two_opt_improvement called with any route  *)
(* of 3 to MaxRoute points at grid steps 0..MaxLat, possibly called again   *)
(* with what it returned, then the totals.                                   *)
RECURSIVE RoutesOf(_)
RoutesOf(n) ==
    IF n = 0 THEN {<<>>}
    ELSE {Append(r, MaintenancePoint(n, lat, BAIXA, "asfalto", 20, 0)) :
             r \in RoutesOf(n - 1), lat \in 0..MaxLat}

InitRefine ==
    /\ final_route \in UNION {RoutesOf(n) : n \in 3..MaxRoute}
    /\ pc = "two_opt"
    /\ points = <<>> /\ team_type = "asfalto" /\ max_hours = MaxShift
    /\ start_point = NoPoint
    /\ team_points = <<>> /\ priority_groups = <<>> /\ clusters = <<>>
    /\ sel_tier = 1 /\ sel_pos = 0 /\ selected = <<>> /\ time_used = 0
    /\ cluster_routes = <<>> /\ result = NoResult
    /\ RefineIdle /\ SchedIdle /\ ApiIdle /\ PoolIdle
    /\ BatchIdle /\ MemoIdle

(* the route returned by the first call is given to a second call *)
RefineAgain ==
    /\ pc = "finish" /\ calls = 1
    /\ pc' = "two_opt"
    /\ UNCHANGED <<final_route, pipeline_inputs, refine_vars, sched_vars, api_vars, pool_vars, batch_vars, memo_vars>>

NextRefine ==
    \/ TwoOptEnter
    \/ TwoOptWhile
    \/ TwoOptScan
    \/ RefineAgain
    \/ Finish

SpecRefine == InitRefine /\ [][NextRefine]_vars

(* the refiner runs on one thread, which keeps executing: a step that can   *)
(* be taken is taken.  Distances depend on differences of latitude alone,   *)
(* so the first point of the route is held at grid step 0.                  *)
InitRefineAnchored == InitRefine /\ final_route[1].latitude = 0
SpecRefineFair ==
    InitRefineAnchored /\ [][NextRefine]_vars /\ WF_vars(NextRefine)

-----------------------------------------------------------------------------
(* POST /optimize (src/src/web/routes.py) over the maintenance_points       *)
(* table.  A row is a point and its status column.                          *)

FetchLimit == 500

(* Database.get_point: the row of that id, whatever its crew type and       *)
(* status; NoPoint stands for None                                           *)
get_point(point_id) ==
    LET rows == SelectSeq(table, LAMBDA row : row.point.id = point_id)
    IN IF rows = <<>> THEN NoPoint ELSE rows[1].point

RECURSIVE Orderings(_)
Orderings(S) ==
    IF S = {} THEN {<<>>}
    ELSE UNION {{<<x>> \o rest : rest \in Orderings(S \ {x})} : x \in S}

(* Database.get_points: the rows of that status and crew type, ORDER BY     *)
(* priority DESC LIMIT limit.  The sort order of the column's enum type is  *)
(* declared outside the repository and rows of equal priority come in any   *)
(* order: every ordering of the matching rows is a possible answer.         *)
get_points(team, status, limit) ==
    LET rows == {k \in 1..Len(table) :
                    table[k].status = status /\ table[k].point.team_type = team}
    IN {[k \in 1..(IF Len(o) < limit THEN Len(o) ELSE limit) |-> table[o[k]].point] :
           o \in Orderings(rows)}

(* `if request.point_ids:` the points found by id, in the order of the      *)
(* request; else the open points of the crew type                            *)
points_to_optimize ==
    IF point_ids # <<>>
    THEN {SelectSeq([k \in 1..Len(point_ids) |-> get_point(point_ids[k])],
                    LAMBDA p : p # NoPoint)}
    ELSE get_points(team_type, "aberto", FetchLimit)

(* lines 90-114: the fetch, HTTP 404 when nothing was found, else the       *)
(* optimizer is constructed over the fetched points and optimize_route is   *)
(* entered with team_type and max_hours of the request and no start point   *)
PostOptimize ==
    /\ pc = "request"
    /\ \E fetched \in points_to_optimize :
          IF fetched = <<>>
          THEN pc' = "HTTP404" /\ UNCHANGED points
          ELSE pc' = "start" /\ points' = fetched
    /\ UNCHANGED <<team_type, max_hours, start_point, team_points,
                   priority_groups, clusters, sel_tier, sel_pos, selected,
                   time_used, cluster_routes, final_route, result>>
    /\ UNCHANGED <<refine_vars, sched_vars, api_vars, pool_vars, batch_vars, memo_vars>>

(* The table: up to MaxPoints emergencies along one street, two grid steps  *)
(* apart, each for one of two crew types and either open or resolved.  The  *)
(* request asks for the asphalt crew, with no ids or with the first ids of  *)
(* the table, the last of them possibly unknown.                             *)
TableRow(k) ==
    {[point |-> MaintenancePoint(k, 2 * (k - 1), EMERGENCIA, team, 20, 0),
      status |-> status] :
        team \in {"asfalto", "hidraulica"}, status \in {"aberto", "resolvido"}}

IdLists == {[k \in 1..n |-> k] : n \in 0..(MaxPoints + 1)}

InitApi ==
    /\ table \in PointLists([k \in 1..MaxPoints |-> TableRow(k)])
    /\ point_ids \in IdLists
    /\ team_type = "asfalto"
    /\ max_hours \in {1, MaxHours}
    /\ start_point = NoPoint
    /\ points = <<>>
    /\ pc = "request"
    /\ RouteIdle /\ RefineIdle /\ SchedIdle /\ PoolIdle
    /\ BatchIdle /\ MemoIdle

NextApi ==
    \/ PostOptimize
    \/ Prepare
    \/ SelectSkipTier
    \/ SelectSortTier
    \/ SelectAdmit
    \/ SelectBreak
    \/ SelectTierDone
    \/ OptimizeClusters
    \/ ConnectClusters
    \/ TwoOptEnter
    \/ TwoOptWhile
    \/ TwoOptScan
    \/ Finish

SpecApi == InitApi /\ [][NextApi]_vars

-----------------------------------------------------------------------------
(* The parallel phase.  Places seven grid steps apart; at each place one to *)
(* three emergencies within eps of one another and a low-priority job of a  *)
(* whole day, which makes the place a cluster and never fits the shift.     *)
(* There are MaxPlaces emergencies at most, each at a place of its own when  *)
(* there are that many.                                                      *)
(* The emergencies of the last place may carry a complaint, which puts them *)
(* first in the selection.  A set iterates by ascending or descending id.   *)
MaxPlaces == 5
DefaultHours == 8

Arrangements(size) ==
    IF size = 3 THEN {<<0, 2, 1>>, <<1, 0, 2>>} ELSE {[i \in 1..size |-> i - 1]}

RECURSIVE Shapes(_)
Shapes(left) ==
    {<<>>} \cup
    UNION {{<<a>> \o rest : rest \in Shapes(left - Len(a))} :
              a \in UNION {Arrangements(size) :
                              size \in 1..(IF left < 3 THEN left ELSE 3)}}

RECURSIVE PlacePoints(_, _, _, _)
PlacePoints(shape, place, next_id, crowd) ==
    IF place > Len(shape) THEN <<>>
    ELSE LET a == shape[place]
             base == 7 * (place - 1)
         IN [i \in 1..Len(a) |->
                MaintenancePoint(next_id + i - 1, base + a[i], EMERGENCIA,
                    "asfalto", 20, IF place = Len(shape) THEN crowd ELSE 0)]
            \o <<MaintenancePoint(next_id + Len(a), base, BAIXA, "asfalto",
                                  480, 0)>>
            \o PlacePoints(shape, place + 1, next_id + Len(a) + 1, crowd)

SetOrders(n) == {[k \in 1..n |-> k], [k \in 1..n |-> n + 1 - k]}

InitPool ==
    /\ \E shape \in Shapes(MaxPlaces) \ {<<>>}, crowd \in {0, 1} :
          points = PlacePoints(shape, 1, 1, crowd)
    /\ set_order \in SetOrders(Len(points))
    /\ team_type = "asfalto"
    /\ max_hours = DefaultHours
    /\ start_point = NoPoint
    /\ pc = "start"
    /\ tasks = <<>> /\ worker = <<>> /\ distance_cache = <<>> /\ finished = <<>>
    /\ RouteIdle /\ RefineIdle /\ SchedIdle /\ ApiIdle
    /\ BatchIdle /\ MemoIdle

NextPool ==
    \/ Prepare
    \/ SelectSkipTier
    \/ SelectSortTier
    \/ SelectAdmit
    \/ SelectBreak
    \/ SelectTierDone
    \/ Submit
    \/ WorkerStart
    \/ WorkerEnter
    \/ WorkerWhile
    \/ GetDistanceCheck
    \/ GetDistanceStore
    \/ GetDistanceLoad
    \/ WorkerReturn
    \/ Collect
    \/ PoolReturn
    \/ ConnectClusters
    \/ TwoOptEnter
    \/ TwoOptWhile
    \/ TwoOptScan
    \/ Finish

SpecPool == InitPool /\ [][NextPool]_vars

-----------------------------------------------------------------------------
(* The sequencer on its own: _connect_clusters called with one to MaxPoints *)
(* cluster tours at distinct places three grid steps apart, the first tour  *)
(* of one or two points, with no start point or one at either end of the    *)
(* street; then the refiner and the totals.                                 *)
TourLists ==
    UNION {{[c \in 1..n |->
                IF c = 1 /\ two # 0
                THEN <<MaintenancePoint(1, place[1] + (IF two = 1 THEN 0 ELSE 1),
                                        BAIXA, "asfalto", 20, 0),
                       MaintenancePoint(2, place[1] + (IF two = 1 THEN 1 ELSE 0),
                                        BAIXA, "asfalto", 20, 0)>>
                ELSE <<MaintenancePoint(2 * c - 1, place[c], BAIXA, "asfalto",
                                        20, 0)>>] :
            place \in {f \in [1..n -> {3 * k : k \in 0..(MaxPoints - 1)}] :
                          \A c, d \in 1..n : f[c] = f[d] => c = d},
            two \in 0..2} : n \in 1..MaxPoints}

InitConnect ==
    /\ cluster_routes \in TourLists
    /\ start_point \in
           {NoPoint,
            MaintenancePoint(2 * MaxPoints + 1, 0, BAIXA, "geral", 20, 0),
            MaintenancePoint(2 * MaxPoints + 1, 3 * MaxPoints, BAIXA, "geral",
                             20, 0)}
    /\ pc = "connect"
    /\ points = <<>> /\ team_type = "asfalto" /\ max_hours = MaxShift
    /\ team_points = <<>> /\ priority_groups = <<>> /\ clusters = <<>>
    /\ sel_tier = 1 /\ sel_pos = 0 /\ selected = <<>> /\ time_used = 0
    /\ final_route = <<>> /\ result = NoResult
    /\ RefineIdle /\ SchedIdle /\ ApiIdle /\ PoolIdle
    /\ BatchIdle /\ MemoIdle

NextConnect ==
    \/ ConnectClusters
    \/ TwoOptEnter
    \/ TwoOptWhile
    \/ TwoOptScan
    \/ Finish

SpecConnect == InitConnect /\ [][NextConnect]_vars

-----------------------------------------------------------------------------
(* The batches: up to MaxPoints points of three tiers, point k at the       *)
(* origin or k steps from it; a batch size from 1 to MaxBatch; each         *)
(* strategy and a name that is none.                                         *)
MaxBatch == 2
BatchPoint(k) ==
    {MaintenancePoint(k, lat, pr, "asfalto", 20, 0) :
        lat \in {0, k}, pr \in {EMERGENCIA, ALTA, BAIXA}}
Strategies == {"priority", "geographic", "mixed", "balanced"}

InitBatch ==
    /\ batch_points \in PointLists([k \in 1..MaxPoints |-> BatchPoint(k)])
    /\ batch_size \in 1..MaxBatch
    /\ strategy \in Strategies
    /\ batches = <<>> /\ batch_pc = "call"
    /\ RouteUnused /\ SchedIdle /\ ApiIdle /\ PoolIdle /\ MemoIdle

NextBatch == BatchByPriority \/ BatchByPlace \/ BatchMixed \/ BatchNoStrategy

SpecBatch == InitBatch /\ [][NextBatch]_vars

-----------------------------------------------------------------------------
(* The memo: up to MaxMemo points, point k at the origin or k grid steps    *)
(* from it; its id is k, or the id of the first point, or absent (None,     *)
(* written 0) as it is for a point that has not been saved.                  *)
MaxMemo == 2
MemoPoint(k) ==
    {MaintenancePoint(id, lat, EMERGENCIA, "asfalto", 20, 0) :
        id \in {0, 1, k}, lat \in {0, k}}

InitMemo ==
    /\ points \in UNION {PointListsOf(n, [k \in 1..MaxMemo |-> MemoPoint(k)]) :
                            n \in 1..MaxMemo}
    /\ team_type = "asfalto" /\ max_hours = DefaultHours
    /\ start_point = NoPoint
    /\ pc = "lookup"
    /\ RouteIdle /\ RefineIdle /\ SchedIdle /\ ApiIdle /\ PoolIdle
    /\ BatchIdle /\ MemoIdle

NextMemo == GetDistance

SpecMemo == InitMemo /\ [][NextMemo]_vars

-----------------------------------------------------------------------------
(* Claims *)

Needs(pts) == SumSeq([k \in 1..Len(pts) |-> pts[k].estimated_time + StopOverhead])
Minutes(pts) == SumSeq([k \in 1..Len(pts) |-> pts[k].estimated_time])
SelectionOver == pc \in {"optimize_clusters", "connect", "two_opt",
                         "two_opt_while", "two_opt_scan", "finish", "done"}
Selected(p) == p \in Range(selected)

(* C1: at every step of the Budget Selector the selected points satisfy     *)
(* sum(estimated_time + 10) <= budget, and the running time_used, which is  *)
(* that sum, never exceeds the budget.                                       *)
C1_BudgetRespected ==
    /\ Needs(selected) <= max_hours * MinutesPerHour
    /\ time_used = Needs(selected)

(* the selection is over with several points admitted and one left out *)
C1_Witness ==
    /\ pc = "optimize_clusters"
    /\ Len(selected) >= 2
    /\ Len(selected) < Len(team_points)
    /\ Needs(team_points) > max_hours * MinutesPerHour

(* the time the selection has used once the tier of priority pr is done *)
UsedThroughTier(pr) ==
    Needs(SelectSeq(selected, LAMBDA p : p.priority >= pr))

(* the time used by the points admitted before the tier of priority pr *)
UsedBeforeTier(pr) ==
    Needs(SelectSeq(selected, LAMBDA p : p.priority > pr))

(* C2: a point that does not fit is skipped and the scan of its tier goes   *)
(* on, so when the selection is over every point left out is one that did   *)
(* not fit in what the budget had left after its tier: a point of the tier  *)
(* that fits after an earlier rejection has been admitted.                   *)
C2_TierScanContinues ==
    SelectionOver =>
        \A q \in Range(team_points) :
            ~Selected(q) =>
                UsedThroughTier(q.priority) + time_needed(q) > max_hours * MinutesPerHour

(* C4: when the selection is over, a point h left out while a point l of a  *)
(* strictly lower tier is in could not fit: the time used by the points     *)
(* admitted before l's tier, plus h's estimated_time + 10, exceeds the      *)
(* budget.                                                                   *)
C4_PriorityGuarantee ==
    SelectionOver =>
        \A h \in Range(team_points), l \in Range(team_points) :
            (~Selected(h) /\ Selected(l) /\ h.priority > l.priority) =>
                UsedBeforeTier(l.priority) + time_needed(h) > max_hours * MinutesPerHour

(* the three crew points of the scenario: emergency 45 min, high 20 min,    *)
(* low 15 min, and a shift of one hour                                       *)
Scenario ==
    /\ max_hours = 1
    /\ Len(team_points) = 3
    /\ {<<team_points[k].priority, team_points[k].estimated_time>> : k \in 1..3}
           = {<<EMERGENCIA, 45>>, <<ALTA, 20>>, <<BAIXA, 15>>}

PrioritiesOf(route) == {route[k].priority : k \in 1..Len(route)}

(* C7 as stated: in the scenario the route is the emergency and the         *)
(* high-priority point, two stops, the low-priority point left out.          *)
C7_ScenarioTwoPoints ==
    (pc = "done" /\ Scenario) =>
        Len(result.route) = 2 /\ PrioritiesOf(result.route) = {EMERGENCIA, ALTA}

(* C7, amended: in the scenario the route is the emergency point alone;     *)
(* with its 45 + 10 minutes used, neither the high-priority point (20 + 10) *)
(* nor the low-priority one (15 + 10) fits the 60 minutes.                   *)
C7_ScenarioEmergencyOnly ==
    (pc = "done" /\ Scenario) =>
        /\ Len(result.route) = 1
        /\ result.route[1].priority = EMERGENCIA
        /\ result.route[1].estimated_time = 45

C7_Witness ==
    pc = "done" /\ Scenario /\ Len(result.route) = 1 /\ Len(points) = 5

(* C9: RouteResult.total_time is the sum of estimated_time over the route   *)
(* (no overhead) and is at most max_hours * 60.                              *)
C9_TotalTimeWithinShift ==
    pc = "done" =>
        /\ result.total_time = Minutes(result.route)
        /\ result.total_time <= max_hours * MinutesPerHour

(* a returned route of several stops that left a crew point out *)
C9_Witness ==
    /\ pc = "done"
    /\ Len(result.route) >= 2
    /\ Len(result.route) < Len(team_points)
    /\ result.total_time >= 65

SinglePoint ==
    /\ Len(points) = 1
    /\ points[1].team_type = team_type
    /\ max_hours \in MinShift..MaxShift

(* C10 as stated: a single point of the requested crew type is the only     *)
(* stop of the route, for every shift of 1..12 hours, with total distance 0. *)
C10_SinglePointRoute ==
    (pc = "done" /\ SinglePoint) =>
        result.route = points /\ result.total_distance = 0

(* C10, amended: ... provided the point fits the shift, estimated_time + 10 *)
(* <= max_hours * 60; a point that does not fit gives the empty route.      *)
C10_SinglePointRouteIfFits ==
    (pc = "done" /\ SinglePoint) =>
        /\ result.total_distance = 0
        /\ IF points[1].estimated_time + StopOverhead <= max_hours * MinutesPerHour
           THEN result.route = points
           ELSE result.route = <<>>

(* a single point that takes the whole shift, returned as the only stop *)
C10_Witness ==
    /\ pc = "done" /\ SinglePoint
    /\ points[1].estimated_time + StopOverhead = max_hours * MinutesPerHour
    /\ result.route = points

(* C5: for a route of 4 or more points the cyclic tour length (closing     *)
(* edge included) of what _two_opt_improvement returns is at most that of   *)
(* the route it was given; the same holds of current_route at every step.   *)
C5_NoRegression ==
    (Len(route_in) >= 4 /\ pc \in {"two_opt_while", "two_opt_scan", "finish", "done"}) =>
        /\ _calculate_total_distance(current_route) <= _calculate_total_distance(route_in)
        /\ pc \in {"finish", "done"} =>
               _calculate_total_distance(final_route) <= _calculate_total_distance(route_in)

(* the refiner returned a tour that is strictly shorter than its argument *)
C5_Witness ==
    /\ pc = "finish" /\ Len(route_in) >= 4
    /\ final_route # route_in
    /\ _calculate_total_distance(final_route) < _calculate_total_distance(route_in)

HasEmergency(route) == \E k \in 1..Len(route) : route[k].priority = EMERGENCIA

(* C8 as stated: whatever the start point, a returned route that contains   *)
(* an EMERGENCIA point begins with one.                                      *)
C8_EmergencyFirst ==
    (pc = "done" /\ HasEmergency(result.route)) =>
        result.route[1].priority = EMERGENCIA

(* C8, amended: when no start point is supplied, a returned route that      *)
(* contains an EMERGENCIA point begins with one.                             *)
C8_EmergencyFirstNoStart ==
    (pc = "done" /\ start_point = NoPoint /\ HasEmergency(result.route)) =>
        result.route[1].priority = EMERGENCIA

(* no start point; a route over several clusters, mixed priorities, that    *)
(* 2-opt has changed                                                         *)
C8_Witness ==
    /\ pc = "done" /\ start_point = NoPoint
    /\ Len(cluster_routes) >= 2
    /\ Len(result.route) >= 4
    /\ result.route # route_in
    /\ HasEmergency(result.route)
    /\ \E k \in 1..Len(result.route) : result.route[k].priority # EMERGENCIA

(* C3: optimize_team_schedule never fails, however many points are rejected *)
C3_NeverFails == sched_pc # "IndexError"

Crews == DOMAIN team_schedules
MaxOver(S) == CHOOSE x \in S : \A y \in S : y <= x
MinOver(S) == CHOOSE x \in S : \A y \in S : x <= y
Assigned == UNION {Range(team_schedules[c]) : c \in Crews}
NothingDropped ==
    /\ sched_pc \in {"points", "team", "done"}
    /\ team_schedules # <<>>
    /\ dropped = {}
    /\ Assigned # {}

(* C6 as stated: with no point dropped, the largest per-crew sum of         *)
(* estimated_time minus the smallest is at most the largest estimated_time  *)
(* of an assigned point.                                                     *)
C6_FairnessBound ==
    NothingDropped =>
        MaxOver({Minutes(team_schedules[c]) : c \in Crews})
          - MinOver({Minutes(team_schedules[c]) : c \in Crews})
        <= MaxOver({p.estimated_time : p \in Assigned})

(* C6, amended: with no point dropped, the bound holds of the load the      *)
(* balancer keeps, estimated_time + 10 for each assigned point: the largest *)
(* per-crew sum minus the smallest is at most the largest estimated_time +  *)
(* 10 of an assigned point.                                                  *)
C6_FairnessBoundWithOverhead ==
    NothingDropped =>
        MaxOver({Needs(team_schedules[c]) : c \in Crews})
          - MinOver({Needs(team_schedules[c]) : c \in Crews})
        <= MaxOver({p.estimated_time + StopOverhead : p \in Assigned})

(* two crews, everything assigned, unequal loads *)
C6_Witness ==
    /\ NothingDropped /\ sched_pc = "done"
    /\ Cardinality(Crews) = 2
    /\ Cardinality(Assigned) >= 4
    /\ Needs(team_schedules[0]) # Needs(team_schedules[1])

-----------------------------------------------------------------------------
EmptyResult == RouteResult(<<>>, 0, 0, team_type, <<>>)
NoCrewPoint == \A k \in 1..Len(points) : points[k].team_type # team_type
NoneFits ==
    \A k \in 1..Len(points) :
        points[k].team_type = team_type =>
            points[k].estimated_time + StopOverhead > max_hours * MinutesPerHour

(* C11: when the point set is empty or holds no point of the requested     *)
(* crew type, and also when crew points exist but none fits the budget,     *)
(* optimize_route returns the empty route, distance 0, time 0 and the empty *)
(* statistics map; the call never stops short of returning.                 *)
C11_EmptyResult ==
    /\ (pc = "done" /\ (NoCrewPoint \/ NoneFits)) => result = EmptyResult
    /\ pc \in {"start", "select", "optimize_clusters", "connect", "two_opt",
               "two_opt_while", "two_opt_scan", "finish", "done"}

(* crew points exist, none fits, and the pipeline returned the empty result *)
C11_Witness ==
    /\ pc = "done" /\ ~NoCrewPoint /\ NoneFits
    /\ result = EmptyResult

(* the tour length computed from the coordinates: every leg and the way     *)
(* back from the last stop to the first                                      *)
Leg(route, k) ==
    haversine_distance(coordinates(route[k]),
                       coordinates(route[(k % Len(route)) + 1]))
CyclicLength(route) == SumSeq([k \in 1..Len(route) |-> Leg(route, k)])

C20_CrewCapacity ==
    (sched_pc \in {"points", "team", "done", "IndexError"}) =>
        \A c \in Crews :
            Len(team_schedules[c]) >= 1 =>
                Minutes(team_schedules[c])
                  + StopOverhead * (Len(team_schedules[c]) - 1)
                <= work_hours * MinutesPerHour

(* a crew with several points, within ten minutes of the limit *)
C20_Witness ==
    /\ sched_pc = "done"
    /\ \E c \in Crews :
          /\ Len(team_schedules[c]) >= 2
          /\ Minutes(team_schedules[c]) + StopOverhead * (Len(team_schedules[c]) - 1)
               >= work_hours * MinutesPerHour - StopOverhead

(* C19: a full pass compares every pair (i, j) with 1 <= i < j <= n and     *)
(* j - i # 1, the pairs with j = n included, where the edge from the last   *)
(* point back to the first is compared; so when the refiner returns, the    *)
(* last pair its last pass compared is (n - 2, n).                           *)
C19_CyclicScan ==
    (pc = "finish" /\ Len(route_in) >= 4) =>
        opt_j = Len(final_route) /\ opt_i = Len(final_route) - 2

(* C12: _two_opt_improvement applied to what it returned returns it         *)
(* unchanged: refine(refine(route)) = refine(route).                         *)
C12_Idempotent ==
    (pc = "finish" /\ calls = 2) => final_route = route_in

(* the second call has returned, and the first call had changed its route *)
C12_Witness ==
    /\ pc = "finish" /\ calls = 2
    /\ Len(route_in) >= 4
    /\ \E k \in 1..Len(route_in) : route_in[k].id # k

(* the time a crew has accumulated: estimated_time + 10 for each point of   *)
(* its list                                                                  *)
Accumulated(c) == Needs(team_schedules[c])

LeastLoaded(c) ==
    \A d \in Crews :
        Accumulated(c) < Accumulated(d) \/ (Accumulated(c) = Accumulated(d) /\ c <= d)

(* the crew a step of the loop over the points took from the heap *)
OfferedCrew == (CHOOSE e \in heap \ heap' : TRUE)[2]

(* C18: each point is offered to one crew only, the crew with the least     *)
(* accumulated time at that moment (ties: the lowest crew index); it joins  *)
(* that crew's list if it fits and no list at all if it does not.            *)
C18_OfferedToLeastLoaded ==
    [][(sched_pc = "points" /\ point_no' = point_no + 1) =>
          /\ LeastLoaded(OfferedCrew)
          /\ IF CrewFits(Accumulated(OfferedCrew), score_obj.point)
             THEN team_schedules' =
                      [team_schedules EXCEPT ![OfferedCrew] = Append(@, score_obj.point)]
             ELSE team_schedules' = team_schedules]_vars

(* what calculate_priority_scores returned, over all crew types *)
Scored == UNION {Range(points_by_team[t]) : t \in DOMAIN points_by_team}

(* the scores are written once, by the step that computes them, and are    *)
(* compared in the state that follows it                                     *)
JustScored == sched_pc = "team" /\ team_no = 1

(* the terms of a point's score other than the priority term, in tenths:    *)
(* complaints, flags, waiting days, proximity bonus, duration penalty       *)
IndexOf(p) == CHOOSE k \in 1..Len(sched_points) : sched_points[k] = p
Extras(p) ==
    100 * p.complaints_count
    + (IF p.near_critical THEN 500 ELSE 0)
    + (IF p.main_road THEN 300 ELSE 0)
    + (IF p.affects_traffic THEN 250 ELSE 0)
    + (IF p.affects_commerce THEN 200 ELSE 0)
    + 20 * p.days_waiting
    + (IF cluster_size(sched_points, IndexOf(p)) > 1
       THEN 150 * (cluster_size(sched_points, IndexOf(p)) - 1) ELSE 0)
    - (IF p.estimated_time > 120 THEN 2 * (p.estimated_time - 120) ELSE 0)

(* C17 as stated: every EMERGENCIA point scores strictly more than every    *)
(* BAIXA point, whatever their other attributes.                             *)
C17_EmergencyOutranksLow ==
    \A e \in Scored, b \in Scored :
        (e.point.priority = EMERGENCIA /\ b.point.priority = BAIXA) =>
            e.score > b.score

(* C17, amended: an EMERGENCIA point scores strictly more than a BAIXA      *)
(* point exactly when the BAIXA point's other terms exceed the EMERGENCIA   *)
(* point's by less than 400 (4000 tenths); with equal other terms the       *)
(* difference is 400.                                                        *)
C17_EmergencyOutranksLowUnlessExtras ==
    JustScored =>
        \A e \in Scored, b \in Scored :
            (e.point.priority = EMERGENCIA /\ b.point.priority = BAIXA) =>
                /\ e.score > b.score <=> Extras(b.point) - Extras(e.point) < 4000
                /\ Extras(b.point) = Extras(e.point) => e.score - b.score = 4000

(* an EMERGENCIA point scored above a BAIXA point whose other terms are    *)
(* the larger                                                                *)
C17_Witness ==
    \E e \in Scored, b \in Scored :
        /\ JustScored
        /\ e.point.priority = EMERGENCIA /\ b.point.priority = BAIXA
        /\ e.score > b.score
        /\ Extras(b.point) > Extras(e.point)

(* C14: when the request names point_ids, every point fetched by id is a    *)
(* candidate for the route whatever its crew type and status: once          *)
(* optimize_route has filtered, each fetched point is among team_points.    *)
PastFilter == pc \notin {"request", "HTTP404", "start"}
C14_FetchedAreCandidates ==
    (point_ids # <<>> /\ PastFilter) =>
        \A p \in Range(points) : p \in Range(team_points)

(* _nearest_neighbor run to its end by one thread alone *)
RECURSIVE TourFrom(_, _)
TourFrom(route, unvisited) ==
    IF unvisited = {} THEN route
    ELSE LET cands == InOrder(unvisited)
             keys == [i \in 1..Len(cands) |->
                         _get_distance(route[Len(route)], cands[i])]
             nearest == FirstLeast(cands, keys)
         IN TourFrom(Append(route, nearest), unvisited \ {nearest})

SequentialTour(pts) ==
    IF Len(pts) <= 1 THEN pts ELSE TourFrom(<<pts[1]>>, Range(Tail(pts)))

PoolOver == pc \in {"connect", "two_opt", "two_opt_while", "two_opt_scan",
                    "finish", "done"}

(* C15: whatever the interleaving and the completion order of the threads,  *)
(* _optimize_clusters returns one tour per submitted cluster, in the order  *)
(* of submission (the order in which the selection first meets each         *)
(* cluster), and each tour is the one a single thread computes: what it     *)
(* returns, and so the route built from it, is fixed by the inputs.         *)
C15_SubmissionOrder ==
    /\ pc = "pool" => Len(cluster_routes) <= Len(tasks)
    /\ PoolOver =>
          /\ tasks = selected_clusters(selected, clusters)
          /\ Len(cluster_routes) = Len(tasks)
    /\ (pc = "pool" \/ PoolOver) =>
          \A n \in 1..Len(cluster_routes) :
              cluster_routes[n] = SequentialTour(tasks[n])

(* the tours of three clusters or more are returned, one of them of several *)
(* points, and the first task submitted was not the first to complete       *)
C15_Witness ==
    /\ pc = "connect"
    /\ Len(tasks) >= 3
    /\ Head(finished) # 1
    /\ \E n \in 1..Len(tasks) : Len(tasks[n]) >= 2

PointOfId(id) == CHOOSE p \in Range(points) : p.id = id
Geodesic(id1, id2) ==
    haversine_distance(coordinates(PointOfId(id1)), coordinates(PointOfId(id2)))

(* C16: with distinct ids, under every interleaving of the threads' test,   *)
(* insertion and lookup steps, every entry of distance_cache and every      *)
(* value _get_distance returns is the distance of its pair.  An entry       *)
(* equals the same distance in every state, so none is ever replaced by a   *)
(* different value.                                                          *)
C16_CacheSafe ==
    /\ \A key \in DOMAIN distance_cache :
           distance_cache[key] = Geodesic(key[1], key[2])
    /\ \A k \in DOMAIN worker :
           worker[k].got # <<>> =>
               worker[k].got[3] = Geodesic(worker[k].got[1], worker[k].got[2])

(* two threads have both found their key missing and are about to insert,   *)
(* while the cache already holds an entry and a value has been returned     *)
C16_Witness ==
    /\ pc = "pool"
    /\ Cardinality({k \in DOMAIN worker : worker[k].phase = "store"}) >= 2
    /\ distance_cache # <<>>
    /\ \E k \in DOMAIN worker : worker[k].got # <<>>

(* C21: every call of _two_opt_improvement returns, and every reversal it   *)
(* accepts makes the cyclic tour length strictly smaller, so that no order  *)
(* of the tour comes back.                                                   *)
Accepted == pc = "two_opt_scan" /\ current_route' # current_route
C21_RefinerTerminates ==
    /\ (pc = "two_opt") ~> (pc = "finish")
    /\ [][Accepted => CyclicLength(current_route') < CyclicLength(current_route)]_vars

(* the refiner has returned after a pass that accepted a reversal and a     *)
(* further pass that accepted none                                           *)
C21_Witness ==
    /\ pc = "finish" /\ calls = 1
    /\ Len(route_in) >= 4
    /\ final_route # route_in

(* a point with no other candidate within the clustering radius *)
Sparse(p) ==
    \A q \in Range(team_points) :
        q.id # p.id =>
            haversine_distance(coordinates(p), coordinates(q)) > eps

(* C22: every point that has no other point within the clustering radius    *)
(* is in a cluster of its own: no cluster of _create_geographical_clusters   *)
(* holds two such points.                                                    *)
C22_SparsePointsAlone ==
    (pc \notin {"start", "idle", "request", "HTTP404"} /\ team_points # <<>>) =>
        \A label \in DOMAIN clusters :
            \A j, k \in 1..Len(clusters[label]) :
                (Sparse(clusters[label][j]) /\ Sparse(clusters[label][k])) =>
                    j = k

(* The clusters as a graph: nodes 1..n, an edge a set of two nodes, its      *)
(* weight the distance of the centroids.                                     *)
Centroid(c) == _calculate_centroid(cluster_routes[c])
TreeWeight(T) ==
    SumSet(T, [e \in T |->
        LET u == CHOOSE x \in e : TRUE
            v == CHOOSE x \in e : x # u
        IN haversine_distance(Centroid(u), Centroid(v))])

RECURSIVE Reached(_, _)
Reached(T, S) ==
    LET more == S \cup UNION {e \in T : e \cap S # {}}
    IN IF more = S THEN S ELSE Reached(T, more)

SpanningTrees ==
    LET n == Len(cluster_routes)
        edges == {{u, v} : u \in 1..n, v \in 1..n} \ {{u} : u \in 1..n}
    IN {T \in SUBSET edges :
           Cardinality(T) = n - 1 /\ Reached(T, {1}) = 1..n}

MinimumTrees ==
    LET trees == SpanningTrees
        weights == {TreeWeight(T) : T \in trees}
        least == CHOOSE w \in weights : \A x \in weights : w <= x
    IN {T \in trees : TreeWeight(T) = least}

(* order is a depth-first preorder of the tree T: each node after the first  *)
(* is a neighbour of the latest node visited that still has an unvisited     *)
(* neighbour                                                                  *)
IsPreorder(order, T) ==
    \A k \in 2..Len(order) :
        LET visited == {order[m] : m \in 1..(k - 1)}
            open == {j \in 1..(k - 1) :
                        \E e \in T : order[j] \in e /\ e \ visited # {}}
        IN /\ open # {}
           /\ {order[CHOOSE j \in open : \A m \in open : m <= j], order[k]} \in T

StartDistance(c) == haversine_distance(coordinates(start_point), Centroid(c))

JustConnected == pc = "two_opt" /\ calls = 0

(* C23: with two or more cluster tours the route is the tours one after the *)
(* other, each whole and in its own order, every cluster once; the first is *)
(* cluster 0 without a start point, else a cluster whose centroid is        *)
(* nearest to the start point; the order of the clusters is a depth-first   *)
(* preorder of a minimum spanning tree of the centroids.  A single tour is  *)
(* returned as it is.                                                        *)
C23_Sequencing ==
    JustConnected =>
        /\ Len(cluster_routes) = 0 => final_route = <<>>
        /\ Len(cluster_routes) = 1 => final_route = cluster_routes[1]
        /\ Len(cluster_routes) >= 2 =>
              LET trees == MinimumTrees
              IN \E order \in Orderings(1..Len(cluster_routes)) :
                     /\ final_route =
                            Concat([k \in 1..Len(order) |->
                                       cluster_routes[order[k]]])
                     /\ IF start_point = NoPoint THEN order[1] = 1
                        ELSE \A c \in 1..Len(order) :
                                 StartDistance(order[1]) <= StartDistance(c)
                     /\ \E T \in trees : IsPreorder(order, T)

(* three or more tours were sequenced from a start point, the first of them *)
(* of two points, and the route does not begin with cluster 0                *)
C23_Witness ==
    /\ JustConnected
    /\ Len(cluster_routes) >= 3
    /\ start_point # NoPoint
    /\ Len(cluster_routes[1]) = 2
    /\ final_route[1] # cluster_routes[1][1]

(* C24: the tour of _nearest_neighbor begins with the first point of the    *)
(* cluster; each point appended was unvisited and no unvisited point was    *)
(* nearer to the end of the tour; the tour returned holds every point of    *)
(* the cluster once.                                                         *)
Between(p, q) == haversine_distance(coordinates(p), coordinates(q))
Nearby(p) ==
    {k \in 1..Len(sched_points) :
        /\ sched_points[k] # p
        /\ Between(sched_points[k], p) <= radius_km}

(* the factor keys whose conditions hold for a point *)
Triggered(p) ==
    {"priority_base"}
    \cup {f \in {"complaints"} : p.complaints_count > 0}
    \cup {f \in {"critical_location"} : p.near_critical}
    \cup {f \in {"main_road"} : p.main_road}
    \cup {f \in {"traffic_impact"} : p.affects_traffic}
    \cup {f \in {"commerce_impact"} : p.affects_commerce}
    \cup {f \in {"time_waiting"} : p.days_waiting > 0}
    \cup {f \in {"cluster_bonus"} : Cardinality(Nearby(p)) >= 2}
    \cup {f \in {"efficiency_penalty"} : p.estimated_time > 120}

Batched(name) == batch_pc = "return" /\ strategy = name

(* C26: the geographic strategy returns ceil(n / b) groups for n points     *)
(* and batch size b.                                                         *)
C26_GeographicGroupCount ==
    Batched("geographic") =>
        Len(batches) = (Len(batch_points) + batch_size - 1) \div batch_size

(* the places <<k, m>> of the batches where a point stands *)
PlacesOf(p) ==
    {place \in (1..Len(batches)) \X (1..MaxPoints) :
        /\ place[2] <= Len(batches[place[1]])
        /\ batches[place[1]][place[2]] = p}

(* C27: under the priority strategy every batch is non-empty, has at most   *)
(* batch_size points and all of one tier; the tiers of the batches never    *)
(* rise, the EMERGENCIA batches coming first; every point of the input is   *)
(* in exactly one batch and the batches hold nothing else; the input list   *)
(* is left as it was.                                                        *)
C27_PriorityBatches ==
    /\ [](Batched("priority") =>
            /\ \A k \in 1..Len(batches) :
                   /\ batches[k] # <<>>
                   /\ Len(batches[k]) <= batch_size
                   /\ \A m \in 1..Len(batches[k]) :
                          batches[k][m].priority = batches[k][1].priority
            /\ \A j, k \in 1..Len(batches) :
                   j < k => batches[j][1].priority >= batches[k][1].priority
            /\ \A k \in 1..Len(batches) :
                   batches[k][1].priority = EMERGENCIA =>
                       \A j \in 1..k : batches[j][1].priority = EMERGENCIA
            /\ \A i \in 1..Len(batch_points) :
                   Cardinality(PlacesOf(batch_points[i])) = 1
            /\ \A k \in 1..Len(batches) :
                   Range(batches[k]) \subseteq Range(batch_points))
    /\ [][strategy = "priority" => batch_points' = batch_points]_vars

(* the priority strategy returned three batches or more, two of them of one *)
(* tier and one of them full, after batches of a higher tier                 *)
C27_Witness ==
    /\ Batched("priority")
    /\ batch_size >= 2
    /\ Len(batches) >= 3
    /\ \E j, k \in 1..Len(batches) :
           /\ j < k
           /\ batches[j][1].priority = batches[k][1].priority
           /\ Len(batches[j]) = batch_size
    /\ batches[1][1].priority = EMERGENCIA
    /\ batches[Len(batches)][1].priority = BAIXA

(* C28: the route returned by optimize_route holds each point admitted by   *)
(* the Budget Selector exactly once and no other point, and every point of  *)
(* the route has the requested crew type.                                    *)
C28_RouteIsSelection ==
    pc = "done" =>
        /\ \A p \in Range(selected) :
               Cardinality({k \in 1..Len(result.route) : result.route[k] = p}) = 1
        /\ Range(result.route) \subseteq Range(selected)
        /\ \A k \in 1..Len(result.route) :
               result.route[k].team_type = team_type

(* a job of another crew type was among the points, and three points or     *)
(* more were routed in another order than the order of their selection      *)
C28_Witness ==
    /\ pc = "done"
    /\ \E p \in Range(points) : p.team_type # team_type
    /\ Len(result.route) >= 3
    /\ result.route # selected

(* C29: whenever optimize_team_schedule is about to process a point of a    *)
(* crew type, the heap holds one entry for each of the num_teams crews of   *)
(* that type.                                                                *)
C29_CrewQueueComplete ==
    (sched_pc = "points" /\ point_no <= Len(points_by_team[this_team])) =>
        /\ Cardinality(heap) = num_teams
        /\ {e[2] : e \in heap} = 0..(num_teams - 1)

(* C30: whatever lookups were made before on the instance, the value        *)
(* _get_distance returns for two points is the distance between the         *)
(* coordinates of those two points, also for points without an id and for   *)
(* points that share an id.                                                  *)
C30_MemoTransparent ==
    returned # NoResult =>
        returned.distance = Between(returned.p1, returned.p2)

====
